---- MODULE Spec2Model ----
(***************************************************************************)
(* A model of the war-room coordination engine (src/backend): the          *)
(* per-incident team / action / hypothesis state kept in the entity store, *)
(* the request handlers of main.py and agents.py, the analysis cycle of    *)
(* strategic_commander.py and the selective collaboration protocol of      *)
(* agent_collaboration.py.                                                 *)
(*                                                                         *)
(* The store is the state.  Every handler is one atomic action: it loads   *)
(* the incident (Repository.get_incident), changes its in-memory copy,     *)
(* and writes it back (Repository.update_incident); messages and findings  *)
(* are written as the code writes them.  The LLM is an oracle: each of its *)
(* replies is an input of the action, drawn from a small set.              *)
(*                                                                         *)
(* Conventions: an Optional value is <<>> (None) or <<v>>; a confidence is *)
(* an integer number of tenths (0.5 is 5); a free text is a sequence of    *)
(* one-character strings; a timestamp is the position of an event in the   *)
(* timeline.  The collaboration_* attributes are attributes of the         *)
(* incident and columns of its row, as repository.py (264-266, 325-327),   *)
(* database.py (44-47) and strategic_commander.py (69-71, 91) use them;    *)
(* models.py and db_models.py do not declare them.                         *)
(***************************************************************************)
EXTENDS Integers, Sequences, FiniteSets, TLC

VARIABLES
    client,     \* TRUE iff an oracle client is configured (OPENAI_API_KEY is set)
    incident,   \* the stored incident row (IncidentDB)
    findings,   \* the stored findings, in insertion order (FindingDB)
    messages,   \* the stored messages, in insertion order (MessageDB)
    last,       \* history: the last handler run, its inputs and what it did
    ops,        \* history: the number of handlers run since the incident was created
    quiet,      \* history: per thread, the engineer updates processed on it since
                \* the last one that ran an analysis cycle (counted while the
                \* thread has a TeamState)
    suspended   \* the analysis cycle waiting at an oracle call, if any: the
                \* incident and the findings it loaded and the replies it will get

vars == <<client, incident, findings, messages, last, ops, quiet, suspended>>

----------------------------------------------------------------------------
(* Bounds of the model *)

MaxOps == 3            \* handlers run after the incident was created
NumTeams == 4          \* teams of the default thread list that are modelled

(* Program constants *)

ConfidenceGate == 5    \* 0.5, in tenths
DedupLen == 60
ActionCap == 10
ReasonLen == 100
CollabMinFindings == 3
CollabMaxTeams == 3
CollabMinTeams == 2
ReviewEvery == 3
BlockerCap == 3

----------------------------------------------------------------------------
(* Optional values and small helpers *)

None == <<>>
Some(x) == <<x>>
IsSome(o) == Len(o) = 1
Get(o) == o[1]

Min(a, b) == IF a < b THEN a ELSE b

\* s[:n]
Prefix(s, n) == SubSeq(s, 1, Min(n, Len(s)))

\* x in s, for a list s
InList(x, s) == \E i \in 1..Len(s) : s[i] = x

\* number of occurrences of x in the list s
Occurrences(x, s) == Cardinality({i \in 1..Len(s) : s[i] = x})

\* list.index(x): the first position of x in s (x is in s)
IndexOf(x, s) == CHOOSE i \in 1..Len(s) : s[i] = x /\ \A j \in 1..(i - 1) : s[j] # x

\* list.insert(idx, x) with a 0-based idx in 0..len(s)
InsertAt(s, idx, x) == SubSeq(s, 1, idx) \o <<x>> \o SubSeq(s, idx + 1, Len(s))

\* a text of n copies of the character c
Rep(c, n) == [i \in 1..n |-> c]

\* F(v), with v evaluated once: the sequencing of the code's statements
Let(v, F(_)) == CHOOSE r \in {F(x) : x \in {v}} : TRUE

----------------------------------------------------------------------------
(* str.lower() on the characters and on the names the model uses *)

LowerChar(c) ==
    CASE c = "A" -> "a"
      [] c = "B" -> "b"
      [] c = "R" -> "r"
      [] OTHER -> c

LowerText(s) == [i \in 1..Len(s) |-> LowerChar(s[i])]

LowerName(n) ==
    CASE n = "Unix" -> "unix"
      [] n = "WINDOWS" -> "windows"
      [] OTHER -> n

----------------------------------------------------------------------------
(* models.py *)

\* Incident.threads default: the team threads, then "summary"
DefaultTeams ==
    <<"unix", "windows", "network", "database", "application",
      "middleware", "cloud", "security", "storage">>

InitialThreads == SubSeq(DefaultTeams, 1, NumTeams) \o <<"summary">>

NewTeamState(name, status) ==
    [ name |-> name,
      status |-> status,
      assigned_engineers |-> <<>>,
      active_tasks |-> <<>>,
      findings_count |-> 0,
      blocked_reason |-> None,
      needs_help_from |-> <<>> ]

NewAction(id, team, description, priority) ==
    [ id |-> id,
      assigned_to |-> team,
      description |-> description,
      priority |-> priority,
      status |-> "pending",
      completed_at |-> None ]

NewHypothesis(root_cause, confidence, evidence, version, proposed_by) ==
    [ root_cause |-> root_cause,
      confidence |-> confidence,
      supporting_evidence |-> evidence,
      version |-> version,
      proposed_by |-> proposed_by ]

Event(type, team) == [event_type |-> type, team |-> team]

Msg(thread, sender_type, kind, info) ==
    [thread |-> thread, sender_type |-> sender_type, kind |-> kind, info |-> info]

\* Python truthiness of an Optional text, of a text and of a name
TruthyOpt(o) == IsSome(o) /\ Get(o) # <<>>

----------------------------------------------------------------------------
(* repository.py.  A handler works on a context c: c.inc is its in-memory  *)
(* incident, c.row the stored row, c.messages the stored messages,         *)
(* c.calls the oracle calls it has made, c.raised whether an exception is  *)
(* propagating (every later step is then skipped).                         *)

NewRow ==
    [ status |-> "declared",
      threads |-> InitialThreads,
      team_states |->
          [t \in {InitialThreads[i] : i \in 1..Len(InitialThreads)} \ {"summary"}
              |-> NewTeamState(t, "standby")],
      hypothesis |-> None,
      timeline |-> <<>>,
      actions |-> <<>>,
      escalated_to_vendor |-> FALSE,
      resolved_at |-> None,
      collaboration_active |-> FALSE,
      collaboration_teams |-> <<>>,
      collaboration_consensus |-> None ]

\* Repository.initialize_war_room: the opening message, then one per team
InitialMessages ==
    <<Msg("summary", "system", "incident_declared", <<>>)>> \o
    [i \in 1..(Len(InitialThreads) - 1) |->
        Msg(InitialThreads[i], "system", "team_activated", <<>>)]

\* Repository.get_incident
LoadContext(row, msgs) ==
    [ inc |-> row, row |-> row, messages |-> msgs,
      calls |-> <<>>, raised |-> FALSE,
      path |-> "", analysis |-> None,
      teams |-> None, consensus |-> None,
      positions |-> <<>>, critiques |-> <<>>, revisions |-> <<>>,
      dialogue |-> <<>> ]

\* Repository.update_incident writes every attribute it lists; threads is not
\* among them, so the stored thread list stays as create_incident wrote it.
StoredRow(row, inc) == [inc EXCEPT !.threads = row.threads]

UpdateIncident(c) ==
    IF c.raised THEN c ELSE [c EXCEPT !.row = StoredRow(c.row, c.inc)]

AddMessage(c, m) ==
    IF c.raised THEN c ELSE [c EXCEPT !.messages = Append(@, m)]

\* a variant that keeps only the new event
ReplaceEvents(c, e) ==
    IF c.raised THEN c ELSE [c EXCEPT !.inc.timeline = <<e>>]

AppendEvent(c, e) ==
    IF c.raised THEN c ELSE [c EXCEPT !.inc.timeline = Append(@, e)]

Raise(c) == [c EXCEPT !.raised = TRUE]

OracleCall(c, call) == [c EXCEPT !.calls = Append(@, call)]

\* timeline[-1].timestamp if timeline else None
LastTimestamp(inc) ==
    IF inc.timeline = <<>> THEN None ELSE Some(Len(inc.timeline))

NonCompleted(actions) == {i \in 1..Len(actions) : actions[i].status # "completed"}

----------------------------------------------------------------------------
(* strategic_commander.py *)

\* StrategicCommander._get_basic_analysis
TeamOrder == DefaultTeams \o <<"vendor">>

BlockedTeams(inc) ==
    SelectSeq(TeamOrder,
              LAMBDA t : /\ t \in DOMAIN inc.team_states
                         /\ inc.team_states[t].status = "blocked"
                         /\ TruthyOpt(inc.team_states[t].blocked_reason))

RootCauseCandidates(fs) ==
    Cardinality({i \in 1..Len(fs) : fs[i].signal_type = "root_cause_candidate"})

\* fault variant: the blocker list is not capped
GetBasicAnalysisUncapped(inc, fs) ==
    [ updated_hypothesis |-> None,
      new_actions |-> <<>>,
      team_coordination |-> <<>>,
      escalation_needed |-> [escalate |-> FALSE, escalate_to |-> None],
      critical_blockers |-> BlockedTeams(inc),
      next_steps_summary |->
          [ kind |-> "unavailable",
            blockers |-> Len(BlockedTeams(inc)),
            candidates |-> RootCauseCandidates(fs) ] ]

GetBasicAnalysis(inc, fs) ==
    [ updated_hypothesis |-> None,
      new_actions |-> <<>>,
      team_coordination |-> <<>>,
      escalation_needed |-> [escalate |-> FALSE, escalate_to |-> None],
      critical_blockers |-> Prefix(BlockedTeams(inc), BlockerCap),
      next_steps_summary |->
          [ kind |-> "unavailable",
            blockers |-> Len(BlockedTeams(inc)),
            candidates |-> RootCauseCandidates(fs) ] ]

\* StrategicCommander._analyze_situation: the analysis, or None
\* reply.kind: "error" (the call raises), "empty", "nonjson", "fenced" (a reply
\* in a markdown fence: re is not imported, the NameError is caught), "json"
\* (an assessment object), "json_empty" (the object {}, which is falsy).
AnalysisFailed(reply) == reply.kind \in {"error", "empty", "nonjson", "fenced"}

AnalyzeSituation(c, fs, reply) ==
    IF ~client THEN [c EXCEPT !.analysis = Some(GetBasicAnalysis(c.inc, fs))]
    ELSE LET c1 == OracleCall(c, <<"analysis">>) IN
         IF AnalysisFailed(reply)
         THEN [c1 EXCEPT !.analysis = Some(GetBasicAnalysis(c.inc, fs))]
         ELSE IF reply.kind = "json_empty"
         THEN [c1 EXCEPT !.analysis = None]
         ELSE [c1 EXCEPT !.analysis = Some(reply.value)]

\* StrategicCommander._update_hypothesis
\* fault variant: the version is not incremented on an update
KeepVersion(h) == h.version

\* incident.hypothesis.version += 1
UpdateHypothesisVersion(h) == h.version + 1

\* fault variant: the confidence gate is at 0.4
RejectsCandidateGate04(hyp_data) ==
    \/ ~IsSome(hyp_data)
    \/ ~TruthyOpt(Get(hyp_data).root_cause)
    \/ (IF IsSome(Get(hyp_data).confidence)
        THEN Get(Get(hyp_data).confidence) ELSE 0) < 4

\* lines 289-295: the two early returns
RejectsCandidate(hyp_data) ==
    \/ ~IsSome(hyp_data)
    \/ ~TruthyOpt(Get(hyp_data).root_cause)
    \/ (IF IsSome(Get(hyp_data).confidence)
        THEN Get(Get(hyp_data).confidence) ELSE 0) < ConfidenceGate

UpdateHypothesis(c, analysis) ==
    LET hyp_data == analysis.updated_hypothesis IN
    IF c.raised THEN c
    ELSE IF RejectsCandidate(hyp_data) THEN c
    ELSE LET h == Get(hyp_data) IN
         IF ~IsSome(c.inc.hypothesis)
         THEN AppendEvent(
                [c EXCEPT !.inc.hypothesis =
                    Some(NewHypothesis(Get(h.root_cause), Get(h.confidence),
                                       h.supporting_evidence, 1,
                                       "Strategic Commander"))],
                Event("hypothesis_formed", None))
         ELSE LET old == Get(c.inc.hypothesis) IN
              AppendEvent(
                [c EXCEPT !.inc.hypothesis =
                    Some([old EXCEPT
                            !.version = UpdateHypothesisVersion(old),
                            !.root_cause = Get(h.root_cause),
                            !.confidence = Get(h.confidence),
                            !.supporting_evidence = h.supporting_evidence])],
                Event("hypothesis_updated", None))

\* StrategicCommander._assign_actions
DedupKey(team, description) ==
    <<LowerName(team), ":", Prefix(LowerText(description), DedupLen)>>

ExistingKeys(actions) ==
    {DedupKey(actions[i].assigned_to, actions[i].description) : i \in NonCompleted(actions)}

Priorities == {"critical", "high", "normal", "low"}

\* one accepted proposal: lines 370-412
CreateAction(c, a) ==
    LET id == Len(c.inc.actions) + 1
        action == NewAction(id, a.team, a.description, a.priority)
        c1 == [c EXCEPT !.inc.actions = Append(@, action)]
        c2 == IF a.team \in DOMAIN c1.inc.team_states
              THEN [c1 EXCEPT
                      !.inc.team_states[a.team].active_tasks = Append(@, id),
                      !.inc.team_states[a.team].status =
                          IF @ = "standby" THEN "investigating" ELSE @]
              ELSE c1
        c3 == AppendEvent(c2, Event("action_assigned", Some(a.team)))
    IN  AddMessage(c3, Msg(a.team, "commander", "new_action", <<id>>))

\* the loop of lines 349-412 from the i-th proposal on; l holds the locals
\* existing_actions and active_action_count and the context c
RECURSIVE AssignLoop(_, _, _)
AssignLoop(l, new_actions, i) ==
    IF l.c.raised \/ i > Len(new_actions) THEN l.c
    ELSE LET a == new_actions[i]
             dedup_key == DedupKey(a.team, a.description)
         IN  IF a.team = "" \/ a.description = <<>>
             THEN AssignLoop(l, new_actions, i + 1)
             ELSE IF dedup_key \in l.existing_actions
             THEN AssignLoop(l, new_actions, i + 1)
             ELSE IF l.active_action_count >= ActionCap
             THEN l.c
             ELSE IF a.priority \notin Priorities
             THEN Raise(l.c)
             ELSE Let([ c |-> CreateAction(l.c, a),
                        existing_actions |-> l.existing_actions \cup {dedup_key},
                        active_action_count |-> l.active_action_count + 1 ],
                      LAMBDA l1 : AssignLoop(l1, new_actions, i + 1))

\* a variant whose cap counts the completed actions too
AssignActionsCountAll(c, analysis) ==
    AssignLoop([ c |-> c,
                 existing_actions |-> ExistingKeys(c.inc.actions),
                 active_action_count |-> Len(c.inc.actions) ],
               analysis.new_actions, 1)

AssignActions(c, analysis) ==
    AssignLoop([ c |-> c,
                 existing_actions |-> ExistingKeys(c.inc.actions),
                 active_action_count |-> Cardinality(NonCompleted(c.inc.actions)) ],
               analysis.new_actions, 1)

\* StrategicCommander._coordinate_teams
RECURSIVE CoordinateLoop(_, _, _)
CoordinateLoop(c, coordination, i) ==
    IF c.raised \/ i > Len(coordination) THEN c
    ELSE LET coord == coordination[i]
             source == coord.source_team
             target == coord.target_team
         IN  IF source = "" \/ target = "" \/ coord.request = <<>>
             THEN CoordinateLoop(c, coordination, i + 1)
             ELSE LET c1 == IF /\ source \in DOMAIN c.inc.team_states
                               /\ ~InList(target, c.inc.team_states[source].needs_help_from)
                            THEN [c EXCEPT !.inc.team_states[source].needs_help_from =
                                                Append(@, target)]
                            ELSE c
                      c2 == AddMessage(c1, Msg(source, "commander", "coordination", <<target>>))
                      c3 == AddMessage(c2, Msg(target, "commander", "coordination", <<source>>))
                      c4 == AppendEvent(c3, Event("team_coordination", Some(source)))
                  IN  Let(c4, LAMBDA x : CoordinateLoop(x, coordination, i + 1))

CoordinateTeams(c, analysis) == CoordinateLoop(c, analysis.team_coordination, 1)

\* StrategicCommander._check_escalation
EscalateTo(escalation) ==
    IF IsSome(escalation.escalate_to) THEN Get(escalation.escalate_to) ELSE "management"

CheckEscalation(c, analysis) ==
    LET escalation == analysis.escalation_needed IN
    IF c.raised \/ ~escalation.escalate THEN c
    ELSE IF EscalateTo(escalation) = "vendor" /\ ~c.inc.escalated_to_vendor
    THEN LET c1 == [c EXCEPT !.inc.escalated_to_vendor = TRUE]
             c2 == IF ~InList("vendor", c1.inc.threads)
                   THEN [c1 EXCEPT
                           !.inc.threads =
                               InsertAt(@, IF InList("summary", @)
                                           THEN IndexOf("summary", @) - 1
                                           ELSE Len(@), "vendor"),
                           !.inc.team_states =
                               ("vendor" :> NewTeamState("vendor", "investigating")) @@ @]
                   ELSE c1
             c3 == AppendEvent(c2, Event("escalation", None))
         IN  AddMessage(c3, Msg("summary", "commander", "escalation", <<>>))
    ELSE c

\* StrategicCommander._broadcast_update
HypothesisSnapshot(inc) ==
    IF IsSome(inc.hypothesis) THEN Some(Get(inc.hypothesis).version) ELSE None

BroadcastUpdate(c, analysis) ==
    AddMessage(c, Msg("summary", "commander", "strategic_update",
                      <<analysis.next_steps_summary, analysis.critical_blockers,
                        HypothesisSnapshot(c.inc)>>))

----------------------------------------------------------------------------
(* agent_collaboration.py *)

\* findings_by_team[team], as the number of findings of the thread
FindingsOf(fs, team) == Cardinality({i \in 1..Len(fs) : fs[i].thread = team})

\* fault variant: a team is active with any finding
ActiveTeamsAnyFinding(fs) ==
    {t \in {fs[i].thread : i \in 1..Len(fs)} : t # "summary"}

\* active_teams of should_trigger_collaboration
ActiveTeams(fs) ==
    {t \in {fs[i].thread : i \in 1..Len(fs)} :
        FindingsOf(fs, t) >= CollabMinFindings /\ t # "summary"}

\* fault variant: the list of the trigger reply is taken whole
ShouldTriggerCollaborationUncut(c, fs, reply) ==
    IF ~client THEN c
    ELSE IF Cardinality(ActiveTeams(fs)) < CollabMinTeams THEN c
    ELSE LET c1 == OracleCall(c, <<"trigger">>) IN
         IF reply.kind = "json" /\ reply.needed /\ Len(reply.teams) >= CollabMinTeams
         THEN [c1 EXCEPT !.teams = Some(reply.teams)]
         ELSE c1

\* SelectiveCollaboration.should_trigger_collaboration: c.teams is its result
\* reply: [kind |-> "fail" | "json", needed, teams]
ShouldTriggerCollaboration(c, fs, reply) ==
    IF ~client THEN c
    ELSE IF Cardinality(ActiveTeams(fs)) < CollabMinTeams THEN c
    ELSE LET c1 == OracleCall(c, <<"trigger">>) IN
         IF reply.kind = "json" /\ reply.needed /\ reply.teams # <<>>
         THEN LET teams == Prefix(reply.teams, CollabMaxTeams) IN
              IF Len(teams) >= CollabMinTeams
              THEN [c1 EXCEPT !.teams = Some(teams)]
              ELSE c1
         ELSE c1

\* SelectiveCollaboration._announce_collaboration_start
AnnounceCollaborationStart(c, teams) ==
    AppendEvent(AddMessage(c, Msg("summary", "commander", "collab_start", teams)),
                Event("collaboration_started", None))

\* SelectiveCollaboration._post_to_thread
PostToThread(c, team, kind) == AddMessage(c, Msg(team, "agent", kind, <<>>))

Dialogue(team, message_type) == [team |-> team, message_type |-> message_type]

\* SelectiveCollaboration._gather_positions, from the i-th team on
\* replies[i]: "fail" (no position), "ok", "malformed" (an object without the
\* keys the caller reads: the KeyError propagates)
RECURSIVE GatherPositions(_, _, _, _, _)
GatherPositions(c, teams, fs, replies, i) ==
    IF c.raised \/ i > Len(teams) THEN c
    ELSE LET team == teams[i] IN
         IF FindingsOf(fs, team) = 0
         THEN GatherPositions(c, teams, fs, replies, i + 1)
         ELSE LET c1 == OracleCall(c, <<"position", team>>) IN
              IF replies[i] = "fail"
              THEN Let(c1, LAMBDA x : GatherPositions(x, teams, fs, replies, i + 1))
              ELSE LET c2 == [c1 EXCEPT !.positions = Append(@, [team |-> team])] IN
                   IF replies[i] = "malformed" THEN Raise(c2)
                   ELSE Let(PostToThread([c2 EXCEPT !.dialogue =
                                              Append(@, Dialogue(team, "position"))],
                                         team, "position"),
                            LAMBDA x : GatherPositions(x, teams, fs, replies, i + 1))

\* SelectiveCollaboration._exchange_critiques, from the i-th position on
OtherPositions(positions, i) ==
    [k \in 1..(Len(positions) - 1) |->
        IF k < i THEN positions[k].team ELSE positions[k + 1].team]

RECURSIVE ExchangeCritiques(_, _, _)
ExchangeCritiques(c, replies, i) ==
    IF c.raised \/ i > Len(c.positions) THEN c
    ELSE LET team == c.positions[i].team
             others == OtherPositions(c.positions, i)
             c1 == OracleCall(c, <<"critique", team, others>>)
         IN  IF replies[i] = "fail"
             THEN Let(c1, LAMBDA x : ExchangeCritiques(x, replies, i + 1))
             ELSE LET c2 == [c1 EXCEPT !.critiques =
                                Append(@, [from_team |-> team, others |-> others])] IN
                  IF replies[i] = "malformed" THEN Raise(c2)
                  ELSE Let(PostToThread([c2 EXCEPT !.dialogue =
                                             Append(@, Dialogue(team, "critique"))],
                                        team, "critique"),
                           LAMBDA x : ExchangeCritiques(x, replies, i + 1))

\* fault variant: every critique is relevant to every team
RelevantCritiquesAll(critiques, team) == critiques

\* SelectiveCollaboration._gather_responses, from the i-th position on
RelevantCritiques(critiques, team) ==
    SelectSeq(critiques, LAMBDA cr : cr.from_team # team)

RECURSIVE GatherResponses(_, _, _)
GatherResponses(c, replies, i) ==
    IF c.raised \/ i > Len(c.positions) THEN c
    ELSE LET team == c.positions[i].team
             relevant == RelevantCritiques(c.critiques, team)
         IN  IF relevant = <<>>
             THEN GatherResponses(c, replies, i + 1)
             ELSE LET froms == [k \in 1..Len(relevant) |-> relevant[k].from_team]
                      c1 == OracleCall(c, <<"revision", team, froms>>)
                  IN  IF replies[i] = "fail"
                      THEN Let(c1, LAMBDA x : GatherResponses(x, replies, i + 1))
                      ELSE LET c2 == [c1 EXCEPT !.revisions =
                                         Append(@, [team |-> team, critiques |-> froms])] IN
                           IF replies[i] = "malformed" THEN Raise(c2)
                           ELSE Let(PostToThread([c2 EXCEPT !.dialogue =
                                                      Append(@, Dialogue(team, "response"))],
                                                 team, "response"),
                                    LAMBDA x : GatherResponses(x, replies, i + 1))

\* SelectiveCollaboration._reach_consensus
\* reply: [kind |-> "fail" | "ok" | "malformed", consensus_hypothesis,
\*         confidence, key_evidence]
\* line 519: the consensus carries self.participating_teams
ReachConsensus(c, reply) ==
    IF c.raised THEN c
    ELSE LET revised == [k \in 1..Len(c.revisions) |-> c.revisions[k].team]
             c1 == OracleCall(c, <<"consensus", revised>>)
         IN  IF reply.kind = "fail" THEN c1
             ELSE [c1 EXCEPT !.consensus =
                      Some([ kind |-> reply.kind,
                             consensus_hypothesis |-> reply.consensus_hypothesis,
                             confidence |-> reply.confidence,
                             key_evidence |-> reply.key_evidence,
                             participating_teams |->
                                 IF IsSome(c.teams) THEN Get(c.teams) ELSE <<>> ])]

\* SelectiveCollaboration._announce_consensus
AnnounceConsensus(c) ==
    IF c.raised THEN c
    ELSE IF Get(c.consensus).kind = "malformed" THEN Raise(c)
    ELSE AppendEvent(
            AddMessage(c, Msg("summary", "commander", "consensus",
                              Get(c.consensus).consensus_hypothesis)),
            Event("consensus_reached", None))

\* a variant that stores the first position as the hypothesis before the
\* later rounds
NegotiateConsensusAdopting(c2, o) ==
    Let(UpdateIncident([c2 EXCEPT !.inc.hypothesis =
                            Some([ root_cause |-> <<c2.positions[1].team>>,
                                   confidence |-> ConfidenceGate,
                                   supporting_evidence |-> <<>>,
                                   version |-> 1,
                                   proposed_by |-> c2.positions[1].team ])]),
        LAMBDA c2a :
    Let(ExchangeCritiques(c2a, o.critiques, 1), LAMBDA c3 :
    Let(GatherResponses(c3, o.revisions, 1), LAMBDA c4 :
    Let(ReachConsensus(c4, o.consensus), LAMBDA c5 :
        IF c5.raised \/ ~IsSome(c5.consensus) THEN c5
        ELSE AnnounceConsensus(c5)))))

\* fault variant: a critiques round that kept nothing ends the negotiation
NegotiateConsensusNeedingCritiques(c2, o) ==
    Let(ExchangeCritiques(c2, o.critiques, 1), LAMBDA c3 :
        IF c3.critiques = <<>> THEN c3
        ELSE Let(GatherResponses(c3, o.revisions, 1), LAMBDA c4 :
             Let(ReachConsensus(c4, o.consensus), LAMBDA c5 :
                 IF c5.raised \/ ~IsSome(c5.consensus) THEN c5
                 ELSE AnnounceConsensus(c5))))

\* SelectiveCollaboration.conduct_collaboration, lines 177-193: the rounds
\* after the positions; o holds the oracle's replies of the cycle
NegotiateConsensus(c2, o) ==
    Let(ExchangeCritiques(c2, o.critiques, 1), LAMBDA c3 :
    Let(GatherResponses(c3, o.revisions, 1), LAMBDA c4 :
    Let(ReachConsensus(c4, o.consensus), LAMBDA c5 :
        IF c5.raised \/ ~IsSome(c5.consensus) THEN c5
        ELSE AnnounceConsensus(c5))))

\* a variant that goes on with any number of positions
ConductCollaborationAnyPositions(c, teams, fs, o) ==
    IF ~client THEN c
    ELSE Let(AnnounceCollaborationStart(c, teams), LAMBDA c1 :
         Let(GatherPositions(c1, teams, fs, o.positions, 1), LAMBDA c2 :
             IF c2.raised THEN c2
             ELSE NegotiateConsensus(c2, o)))

\* fault variant: the start is announced after the positions round
ConductCollaborationLateStart(c, teams, fs, o) ==
    IF ~client THEN c
    ELSE Let(GatherPositions(c, teams, fs, o.positions, 1), LAMBDA c1 :
         Let(AnnounceCollaborationStart(c1, teams), LAMBDA c2 :
             IF c2.raised \/ Len(c2.positions) < CollabMinTeams THEN c2
             ELSE NegotiateConsensus(c2, o)))

\* SelectiveCollaboration.conduct_collaboration: c.consensus is its result
ConductCollaboration(c, teams, fs, o) ==
    IF ~client THEN c
    ELSE Let(AnnounceCollaborationStart(c, teams), LAMBDA c1 :
         Let(GatherPositions(c1, teams, fs, o.positions, 1), LAMBDA c2 :
             IF c2.raised \/ Len(c2.positions) < CollabMinTeams THEN c2
             ELSE NegotiateConsensus(c2, o)))

----------------------------------------------------------------------------
(* StrategicCommander.analyze_and_direct *)

ListSet(s) == {s[i] : i \in 1..Len(s)}

\* fault variant: the summary is posted before the assessment is applied
ApplyUpdatesBroadcastFirst(c1, analysis) ==
    Let(BroadcastUpdate(c1, analysis), LAMBDA c2 :
    Let(UpdateHypothesis(c2, analysis), LAMBDA c3 :
    Let(AssignActions(c3, analysis), LAMBDA c4 :
    Let(CoordinateTeams(c4, analysis), LAMBDA c5 :
    Let(CheckEscalation(c5, analysis), LAMBDA c6 :
    Let(AppendEvent(c6, Event("strategic_analysis", None)), LAMBDA c7 :
    Let(UpdateIncident(c7), LAMBDA c8 :
        [c8 EXCEPT !.path = IF c8.raised THEN "raised" ELSE "full"])))))))

\* lines 104-123: the analysis applied
ApplyUpdates(c1, analysis) ==
    Let(UpdateHypothesis(c1, analysis), LAMBDA c2 :
    Let(AssignActions(c2, analysis), LAMBDA c3 :
    Let(CoordinateTeams(c3, analysis), LAMBDA c4 :
    Let(CheckEscalation(c4, analysis), LAMBDA c5 :
    Let(AppendEvent(c5, Event("strategic_analysis", None)), LAMBDA c6 :
    Let(UpdateIncident(c6), LAMBDA c7 :
    Let(BroadcastUpdate(c7, analysis), LAMBDA c8 :
        [c8 EXCEPT !.path = IF c8.raised THEN "raised" ELSE "full"])))))))

\* lines 97-123: the full analysis and its application
FullAnalysis(c, fs, o) ==
    Let(AnalyzeSituation(c, fs, o.analysis), LAMBDA c1 :
        IF ~IsSome(c1.analysis) THEN [c1 EXCEPT !.path = "none"]
        ELSE Let(Get(c1.analysis), LAMBDA analysis : ApplyUpdates(c1, analysis)))

\* lines 81-95: the consensus written back to the hypothesis
ConsensusVersion(inc) ==
    IF IsSome(inc.hypothesis) THEN Get(inc.hypothesis).version + 1 ELSE 1

\* a variant that holds a consensus to the confidence gate of an assessment
WriteConsensusGated(c) ==
    LET consensus == Get(c.consensus)
        c1 == [c EXCEPT
                 !.inc.hypothesis =
                     IF consensus.confidence < ConfidenceGate THEN @
                     ELSE Some(NewHypothesis(consensus.consensus_hypothesis,
                                             consensus.confidence,
                                             consensus.key_evidence,
                                             ConsensusVersion(c.inc),
                                             "Team Consensus")),
                 !.inc.collaboration_consensus = c.consensus]
    IN  [UpdateIncident(c1) EXCEPT !.path = "consensus"]

WriteConsensus(c) ==
    LET consensus == Get(c.consensus)
        c1 == [c EXCEPT
                 !.inc.hypothesis =
                     Some(NewHypothesis(consensus.consensus_hypothesis,
                                        consensus.confidence,
                                        consensus.key_evidence,
                                        ConsensusVersion(c.inc),
                                        "Team Consensus")),
                 !.inc.collaboration_consensus = c.consensus]
    IN  [UpdateIncident(c1) EXCEPT !.path = "consensus"]

\* lines 67-72: the collaboration recorded in the incident
RecordCollaboration(c0, teams) ==
    IF \/ ~c0.inc.collaboration_active
       \/ ListSet(c0.inc.collaboration_teams) # ListSet(teams)
    THEN UpdateIncident([c0 EXCEPT !.inc.collaboration_active = TRUE,
                                   !.inc.collaboration_teams = teams])
    ELSE c0

\* the whole cycle on an existing incident; the result is the final context
AnalyzeAndDirect(row, msgs, fs, o) ==
    Let(ShouldTriggerCollaboration(LoadContext(row, msgs), fs, o.trigger), LAMBDA c0 :
        IF IsSome(c0.teams)
        THEN Let(Get(c0.teams), LAMBDA teams :
             Let(RecordCollaboration(c0, teams), LAMBDA c1 :
             Let(ConductCollaboration(c1, teams, fs, o), LAMBDA c2 :
                 IF c2.raised THEN [c2 EXCEPT !.path = "raised"]
                 ELSE IF /\ IsSome(c2.consensus)
                         /\ Get(c2.consensus).consensus_hypothesis # <<>>
                 THEN WriteConsensus(c2)
                 ELSE FullAnalysis(c2, fs, o))))
        ELSE FullAnalysis(c0, fs, o))

----------------------------------------------------------------------------
(* The handlers, as functions of the store db = [row, findings, messages]  *)
(* and of their inputs.  The result holds the store after the handler,     *)
(* raised (an exception reached the handler's caller) and cycle (what the  *)
(* analysis cycle the handler ran did, if it ran one).                     *)

CycleSummary(c) ==
    [ path |-> c.path, calls |-> c.calls, analysis |-> c.analysis,
      teams |-> c.teams, consensus |-> c.consensus,
      positions |-> c.positions, critiques |-> c.critiques,
      revisions |-> c.revisions, dialogue |-> c.dialogue,
      raised |-> c.raised ]

Result(row, fs, msgs, raised, cycle) ==
    [row |-> row, findings |-> fs, messages |-> msgs, raised |-> raised, cycle |-> cycle]

\* StrategicCommander(incident_id, repo).analyze_and_direct() as a handler's last
\* step; swallow: the caller catches and logs the cycle's exception
RunCycle(db, o, swallow) ==
    Let(db, LAMBDA d :
    Let(AnalyzeAndDirect(d.row, d.messages, d.findings, o), LAMBDA c :
        Result(c.row, d.findings, c.messages,
               c.raised /\ ~swallow, Some(CycleSummary(c)))))

\* main.py trigger_analysis: a cycle that returns nothing is answered with an error
TriggerAnalysisHandler(db, o) ==
    Let(RunCycle(db, o, FALSE), LAMBDA r :
        [r EXCEPT !.raised = @ \/ Get(r.cycle).path = "none"])

\* OrchestratorAgent._classify_signal: None on any failure of the call
\* reply: [kind |-> "error" | "empty" | "nonjson" | "json", signal_type,
\*         confidence, entities, should_trigger_commander]
ClassifyFailed(reply) == reply.kind \in {"error", "empty", "nonjson"}

DefaultClassification ==
    [signal_type |-> "info", confidence |-> 5, entities |-> <<>>,
     should_trigger_commander |-> FALSE]

ClassifySignal(reply) ==
    IF ClassifyFailed(reply) THEN None
    ELSE Some([signal_type |-> reply.signal_type,
               confidence |-> reply.confidence,
               entities |-> reply.entities,
               should_trigger_commander |-> reply.should_trigger_commander])

\* a variant that keeps the whole text as the reason
ApplySignalUntruncated(ts, engineer_name, content, signal_type) ==
    [ts EXCEPT
        !.findings_count = @ + 1,
        !.assigned_engineers =
            IF InList(engineer_name, @) THEN @ ELSE Append(@, engineer_name),
        !.status =
            IF signal_type = "blocker" THEN "blocked"
            ELSE IF signal_type = "root_cause_candidate" THEN "found_issue"
            ELSE IF @ = "standby" THEN "investigating"
            ELSE @,
        !.blocked_reason =
            IF signal_type = "blocker" THEN Some(content) ELSE @]

\* OrchestratorAgent.process_engineer_input, lines 79-97
ApplySignal(ts, engineer_name, content, signal_type) ==
    [ts EXCEPT
        !.findings_count = @ + 1,
        !.assigned_engineers =
            IF InList(engineer_name, @) THEN @ ELSE Append(@, engineer_name),
        !.status =
            IF signal_type = "blocker" THEN "blocked"
            ELSE IF signal_type = "root_cause_candidate" THEN "found_issue"
            ELSE IF @ = "standby" THEN "investigating"
            ELSE @,
        !.blocked_reason =
            IF signal_type = "blocker" THEN Some(Prefix(content, ReasonLen)) ELSE @]

\* a variant without the periodic review
ShouldTriggerNoReview(classification, inc, thread) ==
    \/ classification.should_trigger_commander
    \/ classification.signal_type \in {"root_cause_candidate", "blocker"}

\* a variant with a review on every fourth finding
ShouldTriggerEveryFourth(classification, inc, thread) ==
    \/ classification.should_trigger_commander
    \/ classification.signal_type \in {"root_cause_candidate", "blocker"}
    \/ inc.team_states[thread].findings_count % (ReviewEvery + 1) = 0

\* lines 127-132; the third disjunct reads team_states[thread] and is reached
\* only when the first two are false
ShouldTrigger(classification, inc, thread) ==
    \/ classification.should_trigger_commander
    \/ classification.signal_type \in {"root_cause_candidate", "blocker"}
    \/ inc.team_states[thread].findings_count % ReviewEvery = 0

ShouldTriggerRaises(classification, inc, thread) ==
    /\ ~classification.should_trigger_commander
    /\ classification.signal_type \notin {"root_cause_candidate", "blocker"}
    /\ thread \notin DOMAIN inc.team_states

\* OrchestratorAgent.process_engineer_input
ProcessEngineerInput(db, thread, engineer_name, content, reply, o) ==
    LET cl == ClassifySignal(reply)
        classification == IF IsSome(cl) THEN Get(cl) ELSE DefaultClassification
        finding == [ thread |-> thread, engineer |-> engineer_name,
                     raw_text |-> content,
                     signal_type |-> classification.signal_type,
                     confidence |-> classification.confidence,
                     entities |-> classification.entities ]
        fs == Append(db.findings, finding)
        inc1 == IF thread \in DOMAIN db.row.team_states
                THEN [db.row EXCEPT
                        !.team_states[thread] =
                            ApplySignal(@, engineer_name, content,
                                        classification.signal_type)]
                ELSE db.row
        inc2 == [inc1 EXCEPT !.timeline = Append(@, Event("finding", Some(thread)))]
        row == StoredRow(db.row, inc2)
        msgs == Append(db.messages, Msg(thread, "agent", "agent_reply", <<>>))
    IN  IF ShouldTriggerRaises(classification, inc2, thread)
        THEN Result(row, fs, msgs, TRUE, None)
        ELSE IF ShouldTrigger(classification, inc2, thread)
        THEN RunCycle([row |-> row, findings |-> fs, messages |-> msgs], o, FALSE)
        ELSE Result(row, fs, msgs, FALSE, None)

\* main.py update_team_status
UpdateTeamStatus(db, team, status, blocked_reason, needs_help_from, o) ==
    IF team \in DOMAIN db.row.team_states
    THEN LET inc == [db.row EXCEPT
                        !.team_states[team].status = status,
                        !.team_states[team].blocked_reason = blocked_reason,
                        !.team_states[team].needs_help_from = needs_help_from]
             row == StoredRow(db.row, inc)
         IN  IF status = "blocked"
             THEN RunCycle([db EXCEPT !.row = row], o, TRUE)
             ELSE Result(row, db.findings, db.messages, FALSE, None)
    ELSE Result(db.row, db.findings, db.messages, TRUE, None)

\* OrchestratorAgent.update_action_status
SetActionStatus(action, status, inc) ==
    [action EXCEPT
        !.status = status,
        !.completed_at = IF status = "completed" THEN LastTimestamp(inc) ELSE @]

UpdateActionStatus(db, action_id, status) ==
    IF ~\E i \in 1..Len(db.row.actions) : db.row.actions[i].id = action_id
    THEN Result(db.row, db.findings, db.messages, FALSE, None)
    ELSE LET i == CHOOSE k \in 1..Len(db.row.actions) :
                      /\ db.row.actions[k].id = action_id
                      /\ \A j \in 1..(k - 1) : db.row.actions[j].id # action_id
             action == SetActionStatus(db.row.actions[i], status, db.row)
             inc == [db.row EXCEPT
                        !.actions[i] = action,
                        !.timeline = Append(@, Event("action_update",
                                                     Some(action.assigned_to)))]
         IN  Result(StoredRow(db.row, inc), db.findings,
                    Append(db.messages,
                           Msg(action.assigned_to, "commander", "action_update",
                               <<action_id>>)),
                    FALSE, None)

\* a variant that leaves a blocked team blocked
ResolveIncidentUnblockedOnly(db) ==
    LET resolved_at == LastTimestamp(db.row)
        inc == [db.row EXCEPT
                  !.status = "resolved",
                  !.resolved_at = resolved_at,
                  !.team_states =
                      [t \in DOMAIN @ |->
                          IF @[t].status = "blocked" THEN @[t]
                          ELSE [@[t] EXCEPT !.status = "resolved"]],
                  !.actions =
                      [i \in 1..Len(@) |->
                          IF @[i].status # "completed"
                          THEN [@[i] EXCEPT !.status = "completed",
                                            !.completed_at = resolved_at]
                          ELSE @[i]],
                  !.timeline = Append(@, Event("resolution", None))]
    IN  Result(StoredRow(db.row, inc), db.findings,
               Append(db.messages, Msg("summary", "system", "resolved", <<>>)),
               FALSE, None)

\* OrchestratorAgent.resolve_incident
ResolveIncident(db) ==
    LET resolved_at == LastTimestamp(db.row)
        inc == [db.row EXCEPT
                  !.status = "resolved",
                  !.resolved_at = resolved_at,
                  !.team_states =
                      [t \in DOMAIN @ |-> [@[t] EXCEPT !.status = "resolved"]],
                  !.actions =
                      [i \in 1..Len(@) |->
                          IF @[i].status # "completed"
                          THEN [@[i] EXCEPT !.status = "completed",
                                            !.completed_at = resolved_at]
                          ELSE @[i]],
                  !.timeline = Append(@, Event("resolution", None))]
    IN  Result(StoredRow(db.row, inc), db.findings,
               Append(db.messages, Msg("summary", "system", "resolved", <<>>)),
               FALSE, None)

\* main.py escalate_incident; threads is what the handler holds in memory
EscalateThreads(threads) ==
    IF InList("vendor", threads) THEN threads
    ELSE InsertAt(threads, Len(threads) - 1, "vendor")

EscalateIncident(db, escalate_to, o) ==
    LET inc == IF escalate_to = "vendor"
               THEN [db.row EXCEPT !.escalated_to_vendor = TRUE,
                                   !.threads = EscalateThreads(@)]
               ELSE db.row
    IN  RunCycle([db EXCEPT !.row = StoredRow(db.row, inc)], o, TRUE)

\* main.py create_incident: the row and the opening messages, then the first cycle
CreateIncident(o) ==
    RunCycle([row |-> NewRow, findings |-> <<>>, messages |-> InitialMessages], o, TRUE)

----------------------------------------------------------------------------
(* Inputs: texts, oracle replies *)

TextEmpty == <<>>
TextPool == <<"p", "o", "o", "l">>
TextDns == <<"d", "n", "s">>

\* two descriptions that differ only after their first DedupLen characters
DescLong1 == Rep("a", DedupLen) \o <<"1">>
DescLong2 == Rep("a", DedupLen) \o <<"2">>
\* two descriptions that differ only in case
DescRestart == <<"R", "e", "s", "t", "a", "r", "t">>
DescRestartLower == <<"r", "e", "s", "t", "a", "r", "t">>

Digits == <<"0", "1", "2", "3", "4", "5", "6", "7", "8", "9", "A", "B">>
Task(k) == <<"t", Digits[k]>>

Proposal(team, description, priority) ==
    [team |-> team, description |-> description, priority |-> priority]

NoEscalation == [escalate |-> FALSE, escalate_to |-> None]
Escalation(to) == [escalate |-> TRUE, escalate_to |-> to]

NoCandidate == None
Candidate(root_cause, confidence) ==
    Some([ root_cause |-> root_cause, confidence |-> confidence,
           supporting_evidence |-> <<"e">> ])

Assessment(hyp, new_actions, coordination, escalation) ==
    [ kind |-> "json",
      value |->
        [ updated_hypothesis |-> hyp,
          new_actions |-> new_actions,
          team_coordination |-> coordination,
          escalation_needed |-> escalation,
          critical_blockers |-> <<>>,
          next_steps_summary |-> [kind |-> "oracle", blockers |-> 0, candidates |-> 0] ] ]

AnalysisFailure(kind) == [kind |-> kind, value |-> <<>>]

NoTrigger == [kind |-> "fail", needed |-> FALSE, teams |-> <<>>]
Trigger(teams) == [kind |-> "json", needed |-> TRUE, teams |-> teams]

All(reply) == [i \in 1..CollabMaxTeams |-> reply]

NoConsensus ==
    [kind |-> "fail", consensus_hypothesis |-> <<>>, confidence |-> 0, key_evidence |-> <<>>]
Consensus(text, confidence) ==
    [kind |-> "ok", consensus_hypothesis |-> text, confidence |-> confidence,
     key_evidence |-> <<"k">>]

Oracle(trigger, positions, critiques, revisions, consensus, analysis) ==
    [ trigger |-> trigger, positions |-> positions, critiques |-> critiques,
      revisions |-> revisions, consensus |-> consensus, analysis |-> analysis ]

\* a cycle in which no negotiation starts and the analysis oracle answers `analysis`
Analysis(analysis) ==
    Oracle(NoTrigger, All("fail"), All("fail"), All("fail"), NoConsensus, analysis)

\* the oracle failing on every call
Silent == Analysis(AnalysisFailure("error"))

\* classifier replies
Classified(signal_type, confidence, should_trigger_commander) ==
    [ kind |-> "json", signal_type |-> signal_type, confidence |-> confidence,
      entities |-> <<"e">>, should_trigger_commander |-> should_trigger_commander ]
\* a call that fails (kind: "error"), an empty reply, a reply that is no JSON
Unreadable(kind) ==
    [ kind |-> kind, signal_type |-> "info", confidence |-> 0,
      entities |-> <<>>, should_trigger_commander |-> FALSE ]
ClassifierDown == Unreadable("error")

----------------------------------------------------------------------------
(* The actions: a handler applied to the store *)

DB == [row |-> incident, findings |-> findings, messages |-> messages]

\* the threads an update can be posted on
ThreadNames == ListSet(InitialThreads) \cup {"vendor"}

\* process_engineer_input's first input is the thread
Quieter(q, row, op, args, cycle) ==
    IF op = "process_engineer_input" /\ args[1] \in DOMAIN row.team_states
    THEN [q EXCEPT ![args[1]] = IF IsSome(cycle) THEN 0 ELSE @ + 1]
    ELSE q

Commit(result, op, args) ==
    /\ ops < MaxOps
    /\ \E r \in {result} :
          /\ incident' = r.row
          /\ findings' = r.findings
          /\ messages' = r.messages
          /\ last' = [op |-> op, args |-> args, raised |-> r.raised,
                      cycle |-> r.cycle]
          /\ quiet' = Quieter(quiet, incident, op, args, r.cycle)
    /\ ops' = ops + 1
    /\ UNCHANGED <<client, suspended>>

\* the store of a handler's result
Store(r) == [row |-> r.row, findings |-> r.findings, messages |-> r.messages]

\* the state after the handlers that led to the result r
\* q: the updates of each thread since its last analysis cycle
StartedQuiet(r, op, args, q) ==
    /\ incident = r.row
    /\ findings = r.findings
    /\ messages = r.messages
    /\ last = [op |-> op, args |-> args, raised |-> r.raised, cycle |-> r.cycle]
    /\ ops = 0
    /\ quiet = q
    /\ suspended = None

NoUpdates == [t \in ThreadNames |-> 0]

Started(r, op, args) == StartedQuiet(r, op, args, NoUpdates)

Created(o) == \E r \in {CreateIncident(o)} : Started(r, "create_incident", <<o>>)

\* the oracle replies a handler was run with (its last input)
OracleOf(l) == l.args[Len(l.args)]
LastOracle == OracleOf(last)

----------------------------------------------------------------------------
(* SpecActions: the action ledger.  Analysis cycles that propose actions,  *)
(* update_action_status and resolve_incident.                              *)

FillBatch == [k \in 1..ActionCap |-> Proposal("unix", Task(k), "normal")]

ActionBatches ==
    { <<>>,
      <<Proposal("unix", DescRestart, "high")>>,
      <<Proposal("Unix", DescRestartLower, "normal"),
        Proposal("windows", DescLong1, "normal"),
        Proposal("windows", DescLong2, "low")>>,
      <<Proposal("unix", Task(11), "critical"),
        Proposal("", DescRestart, "normal"),
        Proposal("unix", TextEmpty, "normal"),
        Proposal("storage", Task(12), "normal")>>,
      <<Proposal("unix", Task(11), "critical"),
        Proposal("windows", DescRestart, "urgent")>>,
      FillBatch }

ActionOracles ==
    {Analysis(Assessment(NoCandidate, b, <<>>, NoEscalation)) : b \in ActionBatches}

ActionStatuses == {"pending", "in_progress", "completed", "blocked"}

\* the ids update_action_status is called with: the first two actions, the
\* newest one, and an id no action has
ActionIds == {1, 2, Len(incident.actions), Len(incident.actions) + 1}

InitActions ==
    /\ client = TRUE
    /\ \E o \in ActionOracles : Created(o)

AnalyzeActions ==
    \E o \in ActionOracles : Commit(TriggerAnalysisHandler(DB, o), "analyze", <<o>>)

SetAction ==
    \E id \in ActionIds, status \in ActionStatuses :
        Commit(UpdateActionStatus(DB, id, status), "update_action_status", <<id, status>>)

Resolve == Commit(ResolveIncident(DB), "resolve_incident", <<>>)

NextActions == AnalyzeActions \/ SetAction \/ Resolve

SpecActions == InitActions /\ [][NextActions]_vars

\* C2: no two non-completed actions have the same dedup key: the assigned team
\* lowercased and the first 60 characters of the description lowercased.
ClaimKey(a) == <<LowerName(a.assigned_to), LowerText(Prefix(a.description, 60))>>

C2_NoDuplicateActive ==
    \A i, j \in NonCompleted(incident.actions) :
        i # j => ClaimKey(incident.actions[i]) # ClaimKey(incident.actions[j])

\* C3: at most 10 actions of the incident are non-completed.
C3_ActiveAtMostCap == Cardinality(NonCompleted(incident.actions)) <= 10

\* C10: a completed action stays completed under every handler, and after every
\* handler completed_at is set exactly for the completed actions.
C10_CompletedIsFinal ==
    [][ /\ \A i \in 1..Len(incident.actions) :
              incident.actions[i].status = "completed"
                  => incident'.actions[i].status = "completed"
        /\ \A i \in 1..Len(incident'.actions) :
              IsSome(incident'.actions[i].completed_at)
                  <=> incident'.actions[i].status = "completed" ]_vars

----------------------------------------------------------------------------
(* Spec: every handler, on small menus of inputs *)

\* an assessment that changes everything an assessment can change
Directive(escalation) ==
    Analysis(Assessment(Candidate(Some(TextPool), Some(7)),
                        <<Proposal("unix", DescRestart, "high")>>,
                        <<[source_team |-> "unix", target_team |-> "windows",
                           request |-> TextDns]>>,
                        escalation))

\* an assessment that recommends an escalation and nothing else
EscalationOnly(to) ==
    Analysis(Assessment(NoCandidate, <<>>, <<>>, Escalation(Some(to))))

Oracles ==
    { Silent,
      Directive(NoEscalation),
      Directive(Escalation(Some("vendor"))),
      Directive(Escalation(None)),
      EscalationOnly("management") }

PostThreads == {"unix", "vendor"}
PostContents == {TextEmpty, TextPool}
PostReplies ==
    { ClassifierDown,
      Classified("blocker", 8, TRUE),
      Classified("root_cause_candidate", 9, FALSE) }

TeamStatuses == {"blocked", "investigating"}
BlockedReasons == {None, Some(TextDns)}

Init ==
    /\ client \in BOOLEAN
    /\ \E o \in {Silent, Directive(NoEscalation)} : Created(o)

Post ==
    \E thread \in PostThreads, content \in PostContents, reply \in PostReplies :
        Commit(ProcessEngineerInput(DB, thread, "ann", content, reply, Silent),
               "process_engineer_input", <<thread, content, reply, Silent>>)

SetTeam ==
    \E team \in PostThreads, status \in TeamStatuses, reason \in BlockedReasons :
        Commit(UpdateTeamStatus(DB, team, status, reason, <<>>, Silent),
               "update_team_status", <<team, status, reason, Silent>>)

SetStatus ==
    \E id \in {1, Len(incident.actions) + 1}, status \in {"in_progress", "completed"} :
        Commit(UpdateActionStatus(DB, id, status), "update_action_status", <<id, status>>)

Analyze ==
    \E o \in Oracles : Commit(TriggerAnalysisHandler(DB, o), "analyze", <<o>>)

ResolveAll == Commit(ResolveIncident(DB), "resolve_incident", <<>>)

Escalate ==
    \E escalate_to \in {"vendor", "management"}, o \in {Silent, Directive(NoEscalation)} :
        Commit(EscalateIncident(DB, escalate_to, o), "escalate_incident",
               <<escalate_to, o>>)

Next == Post \/ SetTeam \/ SetStatus \/ Analyze \/ ResolveAll \/ Escalate

Spec == Init /\ [][Next]_vars

\* C5: after every handler, an incident escalated to vendor stays escalated and
\* has "vendor" exactly once in its thread list, immediately before "summary";
\* an escalation to vendor of an incident already escalated to vendor appends
\* no timeline event and posts no message.
VendorThreadPlaced(inc) ==
    /\ Occurrences("vendor", inc.threads) = 1
    /\ InList("summary", inc.threads)
    /\ IndexOf("vendor", inc.threads) + 1 = IndexOf("summary", inc.threads)

C5_VendorEscalationIdempotent ==
    [][ /\ incident.escalated_to_vendor => incident'.escalated_to_vendor
        /\ incident'.escalated_to_vendor => VendorThreadPlaced(incident')
        /\ ( /\ incident.escalated_to_vendor
             /\ last'.op = "escalate_incident"
             /\ last'.args[1] = "vendor" )
           => /\ incident'.timeline = incident.timeline
              /\ messages' = messages ]_vars

\* C8: a team whose status is RESOLVED keeps that status under every handler.
C8_ResolvedIsTerminal ==
    [][ \A t \in DOMAIN incident.team_states :
            incident.team_states[t].status = "resolved"
                => /\ t \in DOMAIN incident'.team_states
                   /\ incident'.team_states[t].status = "resolved" ]_vars

\* C9: every team whose status is BLOCKED has a non-empty blocked_reason.
C9_BlockedHasReason ==
    \A t \in DOMAIN incident.team_states :
        incident.team_states[t].status = "blocked"
            => /\ IsSome(incident.team_states[t].blocked_reason)
               /\ Get(incident.team_states[t].blocked_reason) # <<>>

----------------------------------------------------------------------------
(* SpecCollab: findings, negotiation and the hypothesis.  The incident      *)
(* starts with three findings posted to unix and none, two or three posted  *)
(* to windows.                                                              *)

InfoReply == Classified("info", 6, FALSE)

\* n findings posted to a thread, one after the other
RECURSIVE PostFindings(_, _, _)
PostFindings(r, thread, n) ==
    IF n = 0 THEN r
    ELSE Let(ProcessEngineerInput(Store(r), thread, "ann", TextPool, InfoReply, Silent),
             LAMBDA r1 : PostFindings(r1, thread, n - 1))

\* the history of those n updates: which of them ran an analysis cycle
RECURSIVE QuietFindings(_, _, _, _)
QuietFindings(q, r, thread, n) ==
    IF n = 0 THEN q
    ELSE Let(ProcessEngineerInput(Store(r), thread, "ann", TextPool, InfoReply, Silent),
             LAMBDA r1 : QuietFindings(Quieter(q, r.row, "process_engineer_input",
                                               <<thread>>, r1.cycle),
                                       r1, thread, n - 1))

Hypothesize(hyp, new_actions) ==
    Analysis(Assessment(hyp, new_actions, <<>>, NoEscalation))

AnalysisOracles ==
    { Silent,
      Hypothesize(NoCandidate, <<>>),
      Hypothesize(Candidate(Some(TextPool), Some(4)), <<>>),
      Hypothesize(Candidate(Some(TextPool), Some(5)), <<>>),
      Hypothesize(Candidate(None, Some(9)), <<>>),
      Hypothesize(Candidate(Some(TextDns), None), <<>>),
      Hypothesize(Candidate(Some(TextDns), Some(9)),
                  <<Proposal("unix", DescRestart, "urgent")>>) }

BothTeams == Trigger(<<"unix", "windows">>)
Confident == Assessment(Candidate(Some(TextPool), Some(5)), <<>>, <<>>, NoEscalation)
Malformed ==
    [kind |-> "malformed", consensus_hypothesis |-> <<>>, confidence |-> 0,
     key_evidence |-> <<>>]

Agreement ==
    Oracle(BothTeams, All("ok"), All("ok"), All("ok"), Consensus(TextPool, 8), Confident)

\* a negotiation in which one team only gives a position
OnePosition ==
    Oracle(BothTeams, <<"ok", "fail", "fail">>, All("ok"), All("ok"),
           Consensus(TextPool, 8), Confident)

\* a consensus of low confidence
Doubtful ==
    Oracle(BothTeams, All("ok"), All("ok"), All("ok"), Consensus(TextDns, 3), Confident)

\* a negotiation in which no team gives a position
NoPosition ==
    Oracle(BothTeams, All("fail"), All("ok"), All("ok"), Consensus(TextPool, 8), Confident)

NegotiationOracles ==
    { Agreement,
      Doubtful,
      NoPosition,
      Oracle(BothTeams, All("ok"), All("ok"), All("ok"), Consensus(TextEmpty, 8), Confident),
      OnePosition,
      Oracle(Trigger(<<"unix">>), All("ok"), All("ok"), All("ok"),
             Consensus(TextPool, 8), Confident),
      Oracle(BothTeams, All("ok"), All("ok"), All("ok"), Malformed, Confident) }

CollabOracles == AnalysisOracles \cup NegotiationOracles

InitCollab ==
    /\ client = TRUE
    /\ \E o \in {Silent, Hypothesize(Candidate(Some(TextDns), Some(7)), <<>>)},
          n \in {0, 2, 3} :
          \E r0 \in {CreateIncident(o)} :
          \E r1 \in {PostFindings(r0, "unix", 3)} :
          \E r \in {PostFindings(r1, "windows", n)} :
          \E q \in {QuietFindings(QuietFindings(NoUpdates, r0, "unix", 3),
                                   r1, "windows", n)} :
              StartedQuiet(r, "process_engineer_input",
                           <<IF n = 0 THEN "unix" ELSE "windows", TextPool, InfoReply,
                             Silent>>, q)

PostCollab ==
    \E thread \in {"windows", "summary"},
       reply \in {InfoReply, Classified("root_cause_candidate", 9, FALSE)},
       o \in {Silent, Agreement, Hypothesize(Candidate(Some(TextPool), Some(5)), <<>>)} :
        Commit(ProcessEngineerInput(DB, thread, "ann", TextDns, reply, o),
               "process_engineer_input", <<thread, TextDns, reply, o>>)

AnalyzeCollab ==
    \E o \in CollabOracles : Commit(TriggerAnalysisHandler(DB, o), "analyze", <<o>>)

NextCollab == PostCollab \/ AnalyzeCollab

SpecCollab == InitCollab /\ [][NextCollab]_vars

\* what the claims read off the last handler l: the cycle it ran, the
\* hypothesis candidate of that cycle's assessment
RanFull(l) == IsSome(l.cycle) /\ Get(l.cycle).path = "full"
WroteConsensus(l) == IsSome(l.cycle) /\ Get(l.cycle).path = "consensus"
CandidateOf(l) == Get(Get(l.cycle).analysis).updated_hypothesis

AcceptedCandidate(l) ==
    /\ RanFull(l)
    /\ IsSome(CandidateOf(l))
    /\ TruthyOpt(Get(CandidateOf(l)).root_cause)
    /\ IsSome(Get(CandidateOf(l)).confidence)
    /\ Get(Get(CandidateOf(l)).confidence) >= 5

WeakCandidate(l) ==
    /\ RanFull(l)
    /\ IsSome(CandidateOf(l))
    /\ \/ ~TruthyOpt(Get(CandidateOf(l)).root_cause)
       \/ ~IsSome(Get(CandidateOf(l)).confidence)
       \/ Get(Get(CandidateOf(l)).confidence) < 5

\* the events and the messages a step appends
NewEvents(before, after) == SubSeq(after.timeline, Len(before.timeline) + 1, Len(after.timeline))
NewMessages(before, after) == SubSeq(after, Len(before) + 1, Len(after))

\* C1: the hypothesis version never decreases; a handler whose cycle accepts
\* an update (a full-analysis candidate with a root cause and confidence of at
\* least 0.5, or a consensus write-back) creates version 1 or adds exactly 1
\* to the version; any other handler leaves the hypothesis as it is.
C1_VersionCountsAcceptedUpdates ==
    [][ /\ IsSome(incident.hypothesis)
            => /\ IsSome(incident'.hypothesis)
               /\ Get(incident'.hypothesis).version >= Get(incident.hypothesis).version
        /\ IF AcceptedCandidate(last') \/ WroteConsensus(last')
           THEN /\ IsSome(incident'.hypothesis)
                /\ Get(incident'.hypothesis).version =
                       IF IsSome(incident.hypothesis)
                       THEN Get(incident.hypothesis).version + 1 ELSE 1
           ELSE incident'.hypothesis = incident.hypothesis ]_vars

\* a third version, written by a consensus
C1_Witness ==
    /\ WroteConsensus(last)
    /\ IsSome(incident.hypothesis)
    /\ Get(incident.hypothesis).version = 3

\* C4: a full analysis whose candidate has confidence below 0.5, no
\* confidence or no root cause leaves an existing hypothesis as it is and
\* appends no hypothesis event.
C4_WeakCandidateChangesNothing ==
    [][ (WeakCandidate(last') /\ IsSome(incident.hypothesis))
            => /\ incident'.hypothesis = incident.hypothesis
               /\ \A i \in 1..Len(NewEvents(incident, incident')) :
                      NewEvents(incident, incident')[i].event_type
                          \notin {"hypothesis_formed", "hypothesis_updated"} ]_vars

\* a candidate of confidence 0.4 met a hypothesis
C4_Witness ==
    /\ WeakCandidate(last)
    /\ Get(CandidateOf(last)).confidence = Some(4)
    /\ TruthyOpt(Get(CandidateOf(last)).root_cause)
    /\ IsSome(incident.hypothesis)
    /\ Get(incident.hypothesis).root_cause # Get(Get(CandidateOf(last)).root_cause)

\* C6: a cycle announces a collaboration or asks a team for its position
\* only if at least 2 teams other than summary have at least 3 findings each;
\* with fewer such teams the trigger oracle is not asked, the incident
\* records no collaboration, and the cycle asks for the full analysis.
QualifyingTeams(fs) ==
    {t \in {fs[i].thread : i \in 1..Len(fs)} \ {"summary"} :
        Cardinality({i \in 1..Len(fs) : fs[i].thread = t}) >= 3}

Asked(cy, what) == \E i \in 1..Len(cy.calls) : cy.calls[i][1] = what

StartedNegotiation(cy, new) ==
    \/ \E i \in 1..Len(new) : new[i].kind \in {"collab_start", "position"}
    \/ Asked(cy, "position")
    \/ cy.dialogue # <<>>

C6_NegotiationNeedsTwoActiveTeams ==
    [][ IsSome(last'.cycle) =>
          LET cy == Get(last'.cycle)
              q == Cardinality(QualifyingTeams(findings'))
          IN  /\ StartedNegotiation(cy, NewMessages(messages, messages')) => q >= 2
              /\ q < 2 =>
                    /\ ~Asked(cy, "trigger")
                    /\ ~incident'.collaboration_active
                    /\ incident'.collaboration_teams = <<>>
                    /\ incident'.collaboration_consensus = None
                    /\ Asked(cy, "analysis")
                    /\ IsSome(cy.analysis) ]_vars

\* one team has 3 findings, another has 2, and the trigger oracle would have
\* named both
C6_Witness ==
    /\ IsSome(last.cycle)
    /\ Cardinality(QualifyingTeams(findings)) = 1
    /\ \E i \in 1..Len(findings) : findings[i].thread = "windows"
    /\ LastOracle.trigger = BothTeams
    /\ Get(last.cycle).path = "full"

----------------------------------------------------------------------------
(* SpecFallback: the degraded assessment.  The incident starts with a       *)
(* hypothesis, an action and a coordination request (when an oracle is      *)
(* configured) and with none, three or four of its teams reported blocked.  *)

\* update_team_status(blocked) for the first k teams of the thread list
RECURSIVE BlockTeams(_, _, _)
BlockTeams(r, i, k) ==
    IF i > k THEN r
    ELSE Let(UpdateTeamStatus(Store(r), DefaultTeams[i], "blocked", Some(TextDns),
                              <<>>, Silent),
             LAMBDA r1 : BlockTeams(r1, i + 1, k))

FailureKinds == {"error", "empty", "nonjson", "fenced"}

FallbackOracles ==
    {Analysis(AnalysisFailure(k)) : k \in FailureKinds \cup {"json_empty"}}
        \cup {Directive(Escalation(Some("vendor")))}

InitFallback ==
    /\ client \in BOOLEAN
    /\ \E k \in {0, 3, NumTeams} :
          \E r \in {BlockTeams(CreateIncident(Directive(NoEscalation)), 1, k)} :
              Started(r, IF k = 0 THEN "create_incident" ELSE "update_team_status",
                      IF k = 0 THEN <<Directive(NoEscalation)>>
                      ELSE <<DefaultTeams[k], "blocked", Some(TextDns), Silent>>)

AnalyzeFallback ==
    \E o \in FallbackOracles : Commit(TriggerAnalysisHandler(DB, o), "analyze", <<o>>)

StatusFallback ==
    \E team \in {DefaultTeams[1], DefaultTeams[NumTeams]}, status \in TeamStatuses,
       reason \in BlockedReasons :
        Commit(UpdateTeamStatus(DB, team, status, reason, <<>>, Silent),
               "update_team_status", <<team, status, reason, Silent>>)

PostFallback ==
    \E reply \in { ClassifierDown, Classified("blocker", 8, FALSE),
                   Classified("root_cause_candidate", 9, FALSE) },
       o \in {Silent, Analysis(AnalysisFailure("empty"))} :
        Commit(ProcessEngineerInput(DB, "unix", "ann", TextPool, reply, o),
               "process_engineer_input", <<"unix", TextPool, reply, o>>)

NextFallback == AnalyzeFallback \/ StatusFallback \/ PostFallback

SpecFallback == InitFallback /\ [][NextFallback]_vars

\* C7: a handler whose cycle finds no oracle configured, or whose analysis
\* call errors, answers nothing or answers text that is no JSON, does not
\* raise; the hypothesis, the actions, the escalation and the coordination
\* requests stay as they were; the cycle appends exactly one
\* strategic_analysis event and posts exactly one message, the summary
\* update, whose blocker list has at most 3 teams, each BLOCKED with a reason,
\* and whose summary counts the BLOCKED teams with a reason and the
\* root_cause_candidate findings.
FellBack(l) ==
    /\ IsSome(l.cycle)
    /\ ~client \/ OracleOf(l).analysis.kind \in {"error", "empty", "nonjson"}

BlockedWithReason(inc) ==
    {t \in DOMAIN inc.team_states :
        /\ inc.team_states[t].status = "blocked"
        /\ IsSome(inc.team_states[t].blocked_reason)
        /\ Get(inc.team_states[t].blocked_reason) # <<>>}

\* process_engineer_input appends its finding event and posts the agent's
\* reply before it runs the cycle
CycleEvents(l, ev) == IF l.op = "process_engineer_input" THEN Tail(ev) ELSE ev
CycleMessages(l, ms) == IF l.op = "process_engineer_input" THEN Tail(ms) ELSE ms

C7_FallbackAssessment ==
    [][ FellBack(last') =>
          LET ev == CycleEvents(last', NewEvents(incident, incident'))
              ms == CycleMessages(last', NewMessages(messages, messages'))
          IN  /\ ~last'.raised
              /\ ~Get(last'.cycle).raised
              /\ incident'.hypothesis = incident.hypothesis
              /\ incident'.actions = incident.actions
              /\ incident'.escalated_to_vendor = incident.escalated_to_vendor
              /\ DOMAIN incident'.team_states = DOMAIN incident.team_states
              /\ \A t \in DOMAIN incident.team_states :
                    /\ incident'.team_states[t].active_tasks
                           = incident.team_states[t].active_tasks
                    /\ last'.op # "update_team_status"
                           => incident'.team_states[t].needs_help_from
                                 = incident.team_states[t].needs_help_from
              /\ last'.op = "analyze" => incident'.team_states = incident.team_states
              /\ ev = <<Event("strategic_analysis", None)>>
              /\ Len(ms) = 1
              /\ ms[1].thread = "summary"
              /\ ms[1].kind = "strategic_update"
              /\ Len(ms[1].info[2]) <= 3
              /\ \A i, j \in 1..Len(ms[1].info[2]) :
                    /\ ms[1].info[2][i] \in BlockedWithReason(incident')
                    /\ i # j => ms[1].info[2][i] # ms[1].info[2][j]
              /\ ms[1].info[1].blockers = Cardinality(BlockedWithReason(incident'))
              /\ ms[1].info[1].candidates =
                    Cardinality({i \in 1..Len(findings') :
                                    findings'[i].signal_type = "root_cause_candidate"}) ]_vars

\* the analysis call fails with four teams blocked, a hypothesis, an action
\* and a root-cause candidate on record
C7_Witness ==
    /\ FellBack(last)
    /\ client
    /\ last.op = "analyze"
    /\ Cardinality(BlockedWithReason(incident)) = 4
    /\ Len(messages[Len(messages)].info[2]) = 3
    /\ messages[Len(messages)].info[1].candidates >= 1
    /\ IsSome(incident.hypothesis)
    /\ incident.actions # <<>>

----------------------------------------------------------------------------
(* SpecTimeline: every kind of handler that appends to the timeline, on an  *)
(* incident whose teams can negotiate: engineer updates, analysis cycles    *)
(* with and without negotiation, action updates and resolution.             *)

TimelineOracles ==
    { Agreement,
      OnePosition,
      Oracle(BothTeams, All("ok"), All("ok"), All("ok"), Malformed, Confident),
      Directive(Escalation(Some("vendor"))) }

AnalyzeTimeline ==
    \E o \in TimelineOracles : Commit(TriggerAnalysisHandler(DB, o), "analyze", <<o>>)

NextTimeline == PostCollab \/ AnalyzeTimeline \/ SetStatus \/ ResolveAll

SpecTimeline == InitCollab /\ [][NextTimeline]_vars

EventTypes(timeline) == {timeline[i].event_type : i \in 1..Len(timeline)}

\* C11: the stored timeline only grows at its end: after every handler the
\* timeline it found in the store is a prefix of the timeline it leaves there
C11_TimelineAppendOnly ==
    [][ /\ Len(incident.timeline) <= Len(incident'.timeline)
        /\ \A i \in 1..Len(incident.timeline) :
              incident'.timeline[i] = incident.timeline[i] ]_vars

\* a negotiation's events stored behind those of an assessment and of an
\* action update
C11_Witness ==
    /\ WroteConsensus(last)
    /\ {"finding", "action_assigned", "action_update", "collaboration_started",
        "consensus_reached"} \subseteq EventTypes(incident.timeline)
    /\ incident.timeline[Len(incident.timeline)].event_type = "consensus_reached"

----------------------------------------------------------------------------
(* SpecPosts: engineer updates of every classification, on a team thread    *)
(* and on the summary thread, with the oracle of the cycles failing.  The   *)
(* incident is new, or its unix team has had two info updates.              *)

TextLong == Rep("x", ReasonLen + 1)

UpdateReplies ==
    { ClassifierDown, Unreadable("empty"), Unreadable("nonjson"),
      InfoReply,
      Classified("info", 6, TRUE),
      Classified("blocker", 6, FALSE),
      Classified("root_cause_candidate", 9, FALSE) }

\* who posts what
Posters == { <<"ann", TextPool>>, <<"bob", TextLong>> }

InitPosts ==
    /\ client = TRUE
    /\ \E k \in {0, 2} :
          \E r0 \in {CreateIncident(Silent)} :
          \E r \in {PostFindings(r0, "unix", k)} :
          \E q \in {QuietFindings(NoUpdates, r0, "unix", k)} :
              IF k = 0
              THEN StartedQuiet(r, "create_incident", <<Silent>>, q)
              ELSE StartedQuiet(r, "process_engineer_input",
                                <<"unix", TextPool, InfoReply, "ann", Silent>>, q)

PostUpdate ==
    \E thread \in {"unix", "summary"}, p \in Posters, reply \in UpdateReplies :
        Commit(ProcessEngineerInput(DB, thread, p[1], p[2], reply, Silent),
               "process_engineer_input", <<thread, p[2], reply, p[1], Silent>>)

NextPosts == PostUpdate \/ ResolveAll

SpecPosts == InitPosts /\ [][NextPosts]_vars

\* what the claims read off an engineer update l of SpecPosts: its thread,
\* text, classifier reply and engineer, and the classification that reply gives
UpdateThread(l) == l.args[1]
UpdateText(l) == l.args[2]
UpdateReply(l) == l.args[3]
UpdateEngineer(l) == l.args[4]
UpdateKind(l) == IF UpdateReply(l).kind = "json" THEN UpdateReply(l).signal_type ELSE "info"
UpdateFlag(l) == UpdateReply(l).kind = "json" /\ UpdateReply(l).should_trigger_commander

\* an engineer update on a thread that has a TeamState
TeamUpdate(l, inc) ==
    /\ l.op = "process_engineer_input"
    /\ UpdateThread(l) \in DOMAIN inc.team_states

\* C12: an engineer update on a thread with a TeamState adds exactly one to
\* the team's findings_count, adds the engineer to assigned_engineers only if
\* absent, sets BLOCKED with the text cut to 100 characters as blocked_reason
\* for a blocker, FOUND_ISSUE for a root_cause_candidate, INVESTIGATING for any
\* other kind when the team was STANDBY, and leaves the status as it was otherwise
C12_UpdateChangesTeamState ==
    [][ TeamUpdate(last', incident) =>
          LET ts == incident.team_states[UpdateThread(last')]
              ts2 == incident'.team_states[UpdateThread(last')]
              text == UpdateText(last')
              kind == UpdateKind(last')
          IN  /\ ts2.findings_count = ts.findings_count + 1
              /\ ts2.assigned_engineers =
                    IF \E i \in 1..Len(ts.assigned_engineers) :
                          ts.assigned_engineers[i] = UpdateEngineer(last')
                    THEN ts.assigned_engineers
                    ELSE ts.assigned_engineers \o <<UpdateEngineer(last')>>
              /\ kind = "blocker" =>
                    /\ ts2.status = "blocked"
                    /\ IsSome(ts2.blocked_reason)
                    /\ Len(Get(ts2.blocked_reason)) = Min(Len(text), 100)
                    /\ \A i \in 1..Len(Get(ts2.blocked_reason)) :
                          Get(ts2.blocked_reason)[i] = text[i]
              /\ kind = "root_cause_candidate" => ts2.status = "found_issue"
              /\ kind \notin {"blocker", "root_cause_candidate"} =>
                    ts2.status = IF ts.status = "standby" THEN "investigating"
                                 ELSE ts.status ]_vars

\* a second engineer blocks a team with a text of more than 100 characters
C12_Witness ==
    /\ TeamUpdate(last, incident)
    /\ UpdateKind(last) = "blocker"
    /\ Len(UpdateText(last)) > 100
    /\ LET ts == incident.team_states[UpdateThread(last)]
       IN  /\ ts.status = "blocked"
           /\ ts.assigned_engineers = <<"ann", "bob">>
           /\ Len(Get(ts.blocked_reason)) = 100
           /\ ts.findings_count = 3

\* C13: an engineer update runs an analysis cycle if and only if the
\* classification's trigger flag is true, or its kind is root_cause_candidate
\* or blocker, or the thread's team has a findings_count that, after the
\* increment, is divisible by 3
C13_WakeRule ==
    [][ last'.op = "process_engineer_input" =>
          ( IsSome(last'.cycle) <=>
              \/ UpdateFlag(last')
              \/ UpdateKind(last') \in {"root_cause_candidate", "blocker"}
              \/ /\ TeamUpdate(last', incident)
                 /\ incident'.team_states[UpdateThread(last')].findings_count % 3 = 0 )
      ]_vars

\* a blocker as the fourth finding of a team, after three info findings
C13_Witness ==
    /\ TeamUpdate(last, incident)
    /\ UpdateThread(last) = "unix"
    /\ UpdateKind(last) = "blocker" /\ ~UpdateFlag(last)
    /\ Len(findings) = 4
    /\ \A i \in 1..4 :
          /\ findings[i].thread = "unix"
          /\ findings[i].signal_type = IF i = 4 THEN "blocker" ELSE "info"
    /\ incident.team_states["unix"].findings_count = 4
    /\ incident.team_states["unix"].status = "blocked"
    /\ incident.team_states["unix"].blocked_reason = Some(UpdateText(last))
    /\ IsSome(last.cycle)

\* C14: on no team's thread are there 3 consecutive engineer updates none of
\* which ran an analysis cycle
C14_ReviewEveryThirdUpdate ==
    \A t \in DOMAIN incident.team_states : quiet[t] < 3

\* two quiet updates, then a third one that has nothing but its rank to wake
\* the orchestrator
C14_Witness ==
    /\ TeamUpdate(last, incident)
    /\ UpdateKind(last) = "info" /\ ~UpdateFlag(last)
    /\ incident.team_states[UpdateThread(last)].findings_count = 3
    /\ \A i \in 1..Len(findings) :
          findings[i].thread = UpdateThread(last) => findings[i].signal_type = "info"
    /\ quiet[UpdateThread(last)] = 0
    /\ IsSome(last.cycle)

----------------------------------------------------------------------------
(* The negotiation's outcome, on SpecCollab *)

\* the cycle of the last handler negotiated: the trigger oracle named teams
Negotiated(l) == IsSome(l.cycle) /\ IsSome(Get(l.cycle).teams)

\* conduct_collaboration returned a consensus with a non-empty hypothesis
ReturnedConsensus(l) ==
    /\ Negotiated(l)
    /\ ~Get(l.cycle).raised
    /\ IsSome(Get(l.cycle).consensus)
    /\ Get(Get(l.cycle).consensus).consensus_hypothesis # <<>>

\* C15: a consensus with a non-empty consensus_hypothesis replaces the
\* hypothesis whatever its confidence: the new hypothesis has the text, the
\* confidence and the evidence of the consensus, the previous version plus 1
\* (1 if there was none) and is proposed by "Team Consensus"
C15_ConsensusReplacesHypothesis ==
    [][ ReturnedConsensus(last') =>
          LET consensus == Get(Get(last'.cycle).consensus) IN
          /\ IsSome(incident'.hypothesis)
          /\ Get(incident'.hypothesis).root_cause = consensus.consensus_hypothesis
          /\ Get(incident'.hypothesis).confidence = consensus.confidence
          /\ Get(incident'.hypothesis).supporting_evidence = consensus.key_evidence
          /\ Get(incident'.hypothesis).proposed_by = "Team Consensus"
          /\ Get(incident'.hypothesis).version =
                IF incident.hypothesis = None THEN 1
                ELSE Get(incident.hypothesis).version + 1 ]_vars

\* a consensus of confidence 0.3 has replaced a hypothesis of confidence 0.7
C15_Witness ==
    /\ ReturnedConsensus(last)
    /\ Get(Get(last.cycle).consensus).confidence = 3
    /\ incident.hypothesis =
          Some(NewHypothesis(TextDns, 3, <<"k">>, 2, "Team Consensus"))

\* C16: a cycle that negotiates leaves the hypothesis as it was, or writes
\* the final consensus to it, or (the negotiation having ended without a
\* consensus) the accepted candidate of the full analysis; nothing of the
\* positions, critiques and revisions reaches the hypothesis
C16_OnlyConsensusIsWritten ==
    [][ Negotiated(last') =>
          LET cy == Get(last'.cycle) IN
          \/ incident'.hypothesis = incident.hypothesis
          \/ /\ cy.path = "consensus"
             /\ ReturnedConsensus(last')
             /\ Get(incident'.hypothesis).root_cause =
                   Get(cy.consensus).consensus_hypothesis
             /\ Get(incident'.hypothesis).proposed_by = "Team Consensus"
          \/ /\ cy.path = "full"
             /\ ~ReturnedConsensus(last')
             /\ AcceptedCandidate(last')
             /\ Get(incident'.hypothesis).root_cause =
                   Get(Get(CandidateOf(last')).root_cause) ]_vars

\* all three rounds have run, the consensus could not be announced, and the
\* hypothesis of before is still there
C16_Witness ==
    /\ Negotiated(last)
    /\ Len(Get(last.cycle).positions) = 2
    /\ Len(Get(last.cycle).critiques) = 2
    /\ Len(Get(last.cycle).revisions) = 2
    /\ Asked(Get(last.cycle), "consensus")
    /\ Get(last.cycle).raised
    /\ IsSome(incident.hypothesis)
    /\ Get(incident.hypothesis).root_cause = TextDns

\* C17: with fewer than 2 positions the negotiation returns no consensus,
\* asks the oracle for no critique, revision or consensus, and changes
\* neither the hypothesis nor collaboration_consensus (the hypothesis then
\* changes only by the accepted candidate of the full analysis that follows)
C17_TooFewPositions ==
    [][ (Negotiated(last') /\ Len(Get(last'.cycle).positions) < 2) =>
          LET cy == Get(last'.cycle) IN
          /\ ~Asked(cy, "critique") /\ ~Asked(cy, "revision") /\ ~Asked(cy, "consensus")
          /\ cy.critiques = <<>> /\ cy.revisions = <<>>
          /\ cy.consensus = None
          /\ cy.path # "consensus"
          /\ incident'.collaboration_consensus = incident.collaboration_consensus
          /\ incident'.hypothesis # incident.hypothesis => AcceptedCandidate(last')
      ]_vars

\* both teams were asked, one position came back, and the cycle went on to
\* the full analysis
C17_Witness ==
    /\ Negotiated(last)
    /\ Len(Get(last.cycle).positions) = 1
    /\ Cardinality({i \in 1..Len(Get(last.cycle).calls) :
                       Get(last.cycle).calls[i][1] = "position"}) = 2
    /\ Asked(Get(last.cycle), "analysis")
    /\ Get(last.cycle).path = "full"

----------------------------------------------------------------------------
(* A cycle that fails after its assessment, on SpecActions: the second      *)
(* proposal of a batch has a priority that is no MessagePriority.           *)

\* the cycle of the last handler obtained an assessment and then raised
FailedAfterAssessment(l) ==
    /\ IsSome(l.cycle)
    /\ IsSome(Get(l.cycle).analysis)
    /\ Get(l.cycle).raised

\* C18: a cycle that fails after the assessment has been obtained leaves
\* nothing of its updates in the store: hypothesis, actions, team states and
\* escalation are as before, and no action, coordination or escalation message
\* has been stored
C18_FailedCycleLeavesNothing ==
    [][ FailedAfterAssessment(last') =>
          /\ incident'.hypothesis = incident.hypothesis
          /\ incident'.actions = incident.actions
          /\ incident'.team_states = incident.team_states
          /\ incident'.escalated_to_vendor = incident.escalated_to_vendor
          /\ \A i \in 1..Len(messages') :
                i > Len(messages) =>
                    messages'[i].kind \notin {"new_action", "coordination", "escalation"}
      ]_vars

----------------------------------------------------------------------------
(* Engineer updates while the oracle fails, on SpecPosts *)

\* the finding the last engineer update l has stored
StoredFinding(l, fs) ==
    /\ fs # <<>>
    /\ fs[Len(fs)].thread = UpdateThread(l)
    /\ fs[Len(fs)].engineer = UpdateEngineer(l)
    /\ fs[Len(fs)].raw_text = UpdateText(l)

\* C19: with the oracle failing on every call, an engineer update on any
\* thread (a team thread, "summary") completes without raising, has stored
\* its finding and has given the agent's reply
C19_UpdateSurvivesOracleFailure ==
    ( /\ last.op = "process_engineer_input"
      /\ UpdateReply(last).kind = "error"
      /\ LastOracle = Silent )
    => /\ ~last.raised
       /\ StoredFinding(last, findings)
       /\ \E i \in 1..Len(messages) :
             /\ messages[i].kind = "agent_reply"
             /\ messages[i].thread = UpdateThread(last)

\* C20: when the classifier's call errors, or its reply is empty or no JSON,
\* the finding is stored as info with confidence 0.5 and no entities, the
\* update wakes the orchestrator by nothing but the periodic review, and no
\* error reaches the caller
C20_ClassifierFailureDefaults ==
    ( /\ last.op = "process_engineer_input"
      /\ UpdateReply(last).kind \in {"error", "empty", "nonjson"} )
    => /\ StoredFinding(last, findings)
       /\ findings[Len(findings)].signal_type = "info"
       /\ findings[Len(findings)].confidence = 5
       /\ findings[Len(findings)].entities = <<>>
       /\ IsSome(last.cycle) =>
             /\ UpdateThread(last) \in DOMAIN incident.team_states
             /\ incident.team_states[UpdateThread(last)].findings_count % 3 = 0
       /\ ~last.raised

----------------------------------------------------------------------------
(* The batch of a cycle against the cap, on SpecActions *)

ProposalKey(p) == <<LowerName(p.team), LowerText(Prefix(p.description, 60))>>

\* the proposals of a batch that name a team and a description and whose key
\* is neither that of a non-completed action nor that of an earlier proposal
FreshProposals(batch, actions) ==
    {i \in 1..Len(batch) :
        /\ batch[i].team # "" /\ batch[i].description # <<>>
        /\ \A j \in NonCompleted(actions) : ClaimKey(actions[j]) # ProposalKey(batch[i])
        /\ \A j \in 1..(i - 1) : ProposalKey(batch[j]) # ProposalKey(batch[i])}

FreeSlots(actions) ==
    IF Cardinality(NonCompleted(actions)) >= 10 THEN 0
    ELSE 10 - Cardinality(NonCompleted(actions))

\* the rank of the proposal i among the fresh ones
FreshRank(batch, actions, i) ==
    Cardinality({j \in FreshProposals(batch, actions) : j <= i})

\* C21: the actions a completed cycle adds are exactly the earliest fresh
\* proposals of its own batch that fit in the free slots (10 minus the
\* non-completed actions), in the batch's order: none while 10 actions are
\* non-completed, one again once one of them is completed, and never a
\* proposal of an earlier cycle
C21_EarliestProposalsFillFreeSlots ==
    [][ RanFull(last') =>
          LET batch == Get(Get(last'.cycle).analysis).new_actions
              old == incident.actions
              new == incident'.actions
              fresh == FreshProposals(batch, old)
              taken == {i \in fresh : FreshRank(batch, old, i) <= FreeSlots(old)}
          IN  /\ Len(new) = Len(old) + Cardinality(taken)
              /\ \A k \in 1..Len(old) : new[k] = old[k]
              /\ \A i \in taken :
                    LET a == new[Len(old) + FreshRank(batch, old, i)] IN
                    /\ a.assigned_to = batch[i].team
                    /\ a.description = batch[i].description
                    /\ a.priority = batch[i].priority
                    /\ a.status = "pending" ]_vars

\* ten actions, the first of them completed, and an eleventh accepted by a
\* later cycle whose batch had more fresh proposals than the one free slot
C21_Witness ==
    /\ RanFull(last)
    /\ Len(incident.actions) = 11
    /\ incident.actions[1].status = "completed"
    /\ Cardinality(NonCompleted(incident.actions)) = 10
    /\ Len(Get(Get(last.cycle).analysis).new_actions) > 1
    /\ incident.actions[11].description = Task(11)

----------------------------------------------------------------------------
(* Resolution, on Spec *)

\* C22: right after resolve_incident the incident is resolved, every team's
\* status is RESOLVED and every action is completed
C22_ResolutionForcesAll ==
    last.op = "resolve_incident" =>
        /\ incident.status = "resolved"
        /\ \A t \in DOMAIN incident.team_states :
              incident.team_states[t].status = "resolved"
        /\ \A i \in 1..Len(incident.actions) :
              incident.actions[i].status = "completed"

\* an incident resolved while a team was blocked with a reason and an action
\* was open
C22_Witness ==
    /\ last.op = "resolve_incident"
    /\ incident.status = "resolved"
    /\ \E t \in DOMAIN incident.team_states :
          /\ IsSome(incident.team_states[t].blocked_reason)
          /\ incident.team_states[t].status = "resolved"
    /\ \E i \in 1..Len(incident.actions) :
          /\ incident.actions[i].status = "completed"
          /\ incident.actions[i].completed_at = incident.resolved_at

----------------------------------------------------------------------------
(* update_action_status repeated, on SpecActions *)

\* C23: update_action_status called twice in a row with the same action id
\* and the same status leaves the action, its status and its completed_at, as
\* it was after the first call
C23_ActionUpdateIdempotent ==
    [][ ( /\ last.op = "update_action_status"
          /\ last'.op = "update_action_status"
          /\ last'.args = last.args )
        => \A i \in 1..Len(incident.actions) :
              incident.actions[i].id = last.args[1] =>
                  /\ incident'.actions[i].status = incident.actions[i].status
                  /\ incident'.actions[i].completed_at = incident.actions[i].completed_at
      ]_vars

----------------------------------------------------------------------------
(* Escalation and coordination of an assessment, on Spec *)

\* the escalation recommendation of the completed cycle of the handler l
EscalationOf(l) == Get(Get(l.cycle).analysis).escalation_needed

\* that recommendation asks to escalate, to someone other than the vendor
EscalatedElsewhere(l) ==
    /\ RanFull(l)
    /\ EscalationOf(l).escalate
    /\ EscalationOf(l).escalate_to # Some("vendor")

\* C24: an escalation recommendation whose target is not the vendor is
\* recorded as an event in the timeline and leaves the thread list, the team
\* states and escalated_to_vendor as they were (the team states are compared
\* whole when the assessment brings neither actions nor coordination requests)
C24_OtherEscalationIsRecorded ==
    [][ EscalatedElsewhere(last') =>
          LET ev == NewEvents(incident, incident')
              analysis == Get(Get(last'.cycle).analysis)
          IN  /\ \E i \in 1..Len(ev) : ev[i].event_type = "escalation"
              /\ incident'.threads = incident.threads
              /\ incident'.escalated_to_vendor = incident.escalated_to_vendor
              /\ DOMAIN incident'.team_states = DOMAIN incident.team_states
              /\ (analysis.new_actions = <<>> /\ analysis.team_coordination = <<>>)
                    => incident'.team_states = incident.team_states ]_vars

\* the coordination requests of an assessment that name a source team, a
\* target team and a request
NamedRequests(analysis) ==
    {i \in 1..Len(analysis.team_coordination) :
        /\ analysis.team_coordination[i].source_team # ""
        /\ analysis.team_coordination[i].target_team # ""
        /\ analysis.team_coordination[i].request # <<>>}

\* how often the name x is in the list s
Times(x, s) == Cardinality({i \in 1..Len(s) : s[i] = x})

\* C25: after a completed cycle, for each coordination request that names a
\* source, a target and a request, the source team has the target in its
\* needs_help_from and the target team has the source, each exactly once, and
\* each thread has got one coordination message for every request that names
\* it as source and one for every request that names it as target
C25_CoordinationUpdatesBothTeams ==
    [][ RanFull(last') =>
          LET analysis == Get(Get(last'.cycle).analysis)
              coordination == analysis.team_coordination
              named == NamedRequests(analysis)
              new == NewMessages(messages, messages')
          IN  /\ \A i \in named :
                    LET source == coordination[i].source_team
                        target == coordination[i].target_team
                    IN  /\ source \in DOMAIN incident'.team_states =>
                              Times(target, incident'.team_states[source].needs_help_from) = 1
                        /\ target \in DOMAIN incident'.team_states =>
                              Times(source, incident'.team_states[target].needs_help_from) = 1
              /\ \A t \in {coordination[i].source_team : i \in named}
                          \cup {coordination[i].target_team : i \in named} :
                    Cardinality({k \in 1..Len(new) :
                                    new[k].kind = "coordination" /\ new[k].thread = t})
                      = Cardinality({i \in named : coordination[i].source_team = t})
                        + Cardinality({i \in named : coordination[i].target_team = t})
      ]_vars

----------------------------------------------------------------------------
(* SpecUnknown: the handlers called with the id of the stored incident and  *)
(* with an id the store does not have.                                      *)

\* the id of the stored incident, and an id no incident has
IncidentId == "INC-1"
UnknownId == "INC-0"

\* Repository.get_incident by id
GetIncident(db, incident_id) ==
    IF incident_id = IncidentId THEN Some(db.row) ELSE None

\* a handler that returns before it has written anything
Returned(db) == Result(db.row, db.findings, db.messages, FALSE, None)

\* a variant that does not look for the incident
ProcessEngineerInputUnchecked(db, incident_id, thread, engineer_name, content, reply, o) ==
    ProcessEngineerInput(db, thread, engineer_name, content, reply, o)

\* agents.py 51-53
ProcessEngineerInputById(db, incident_id, thread, engineer_name, content, reply, o) ==
    IF GetIncident(db, incident_id) = None THEN Returned(db)
    ELSE ProcessEngineerInput(db, thread, engineer_name, content, reply, o)

\* strategic_commander.py 49-52
AnalyzeAndDirectById(db, incident_id, o) ==
    IF GetIncident(db, incident_id) = None THEN Returned(db)
    ELSE RunCycle(db, o, FALSE)

\* agents.py 338-344
UpdateActionStatusById(db, incident_id, action_id, status) ==
    IF GetIncident(db, incident_id) = None THEN Returned(db)
    ELSE UpdateActionStatus(db, action_id, status)

\* agents.py 280-282
ResolveIncidentById(db, incident_id) ==
    IF GetIncident(db, incident_id) = None THEN Returned(db)
    ELSE ResolveIncident(db)

IncidentIds == {IncidentId, UnknownId}

InitUnknown ==
    /\ client = TRUE
    /\ \E o \in {Silent, Directive(NoEscalation)} : Created(o)

PostById ==
    \E id \in IncidentIds, thread \in {"unix", "summary"},
       reply \in {ClassifierDown, Classified("blocker", 8, TRUE)} :
        Commit(ProcessEngineerInputById(DB, id, thread, "ann", TextPool, reply, Silent),
               "process_engineer_input", <<id, thread, TextPool, reply, Silent>>)

AnalyzeById ==
    \E id \in IncidentIds, o \in {Silent, Directive(NoEscalation)} :
        Commit(AnalyzeAndDirectById(DB, id, o), "analyze_and_direct", <<id, o>>)

SetStatusById ==
    \E id \in IncidentIds, action_id \in {1, Len(incident.actions) + 1},
       status \in {"in_progress", "completed"} :
        Commit(UpdateActionStatusById(DB, id, action_id, status),
               "update_action_status", <<id, action_id, status>>)

ResolveById ==
    \E id \in IncidentIds :
        Commit(ResolveIncidentById(DB, id), "resolve_incident", <<id>>)

NextUnknown == PostById \/ AnalyzeById \/ SetStatusById \/ ResolveById

SpecUnknown == InitUnknown /\ [][NextUnknown]_vars

\* the handler l was called with an id the store has nothing for: an unknown
\* incident, or an unknown action of the known incident
CalledWithUnknown(l, inc) ==
    \/ /\ l.op \in {"process_engineer_input", "analyze_and_direct",
                    "update_action_status", "resolve_incident"}
       /\ l.args[1] = UnknownId
    \/ /\ l.op = "update_action_status"
       /\ \A i \in 1..Len(inc.actions) : inc.actions[i].id # l.args[2]

\* C26: a handler called with an unknown incident id, and update_action_status
\* called with an unknown action id, returns without raising and leaves the
\* store as it was: no finding, no message, no timeline event, no state change
C26_UnknownIdWritesNothing ==
    [][ CalledWithUnknown(last', incident) =>
          /\ ~last'.raised
          /\ last'.cycle = None
          /\ incident' = incident
          /\ findings' = findings
          /\ messages' = messages ]_vars

\* an update for an unknown incident has come in while the stored incident
\* has findings and actions, and has left them alone
C26_Witness ==
    /\ last.op = "process_engineer_input"
    /\ last.args[1] = UnknownId
    /\ Len(findings) = 1
    /\ Len(incident.actions) = 1
    /\ ops = 2

----------------------------------------------------------------------------
(* SpecRounds: the rounds of a negotiation.  The incident starts with three *)
(* findings on unix and on windows and none or three on network; database   *)
(* has none.  The oracles vary the list of the trigger reply and which of   *)
(* the position, critique and revision calls fail.                          *)

ThreeTeams == Trigger(<<"unix", "windows", "network">>)
FourTeams == Trigger(<<"unix", "windows", "network", "database">>)
SameTeamTwice == Trigger(<<"unix", "unix">>)
SilentTeamFirst == Trigger(<<"database", "unix", "windows">>)
NotNeeded == [kind |-> "json", needed |-> FALSE, teams |-> <<"unix", "windows">>]

Rounds(trigger, positions, critiques, revisions) ==
    Oracle(trigger, positions, critiques, revisions, Consensus(TextPool, 8), Confident)

RoundOracles ==
    { Rounds(ThreeTeams, All("ok"), All("ok"), All("ok")),
      Rounds(ThreeTeams, <<"ok", "fail", "ok">>, All("ok"), All("ok")),
      Rounds(ThreeTeams, All("ok"), <<"ok", "fail", "fail">>, All("ok")),
      Rounds(ThreeTeams, All("ok"), <<"fail", "ok", "ok">>, <<"ok", "fail", "ok">>),
      Rounds(ThreeTeams, All("ok"), All("fail"), All("fail")),
      Rounds(ThreeTeams, All("ok"), All("ok"), All("fail")),
      Oracle(ThreeTeams, All("ok"), All("fail"), All("fail"), NoConsensus, Confident),
      Rounds(FourTeams, All("ok"), All("ok"), All("ok")),
      Rounds(BothTeams, All("ok"), All("fail"), All("ok")),
      Rounds(SilentTeamFirst, All("ok"), All("ok"), All("ok")),
      Rounds(SameTeamTwice, All("ok"), All("ok"), All("ok")),
      Rounds(Trigger(<<"unix">>), All("ok"), All("ok"), All("ok")),
      Rounds(Trigger(<<>>), All("ok"), All("ok"), All("ok")),
      Rounds(NotNeeded, All("ok"), All("ok"), All("ok")),
      Rounds(NoTrigger, All("ok"), All("ok"), All("ok")),
      Analysis(AnalysisFailure("json_empty")) }

InitRounds ==
    /\ client = TRUE
    /\ \E n \in {0, 3} :
          \E r0 \in {CreateIncident(Silent)} :
          \E r1 \in {PostFindings(r0, "unix", 3)} :
          \E r2 \in {PostFindings(r1, "windows", 3)} :
          \E r \in {PostFindings(r2, "network", n)} :
          \E q \in {QuietFindings(QuietFindings(QuietFindings(NoUpdates, r0, "unix", 3),
                                                r1, "windows", 3),
                                  r2, "network", n)} :
              StartedQuiet(r, "process_engineer_input",
                           <<IF n = 0 THEN "windows" ELSE "network", TextPool, InfoReply,
                             Silent>>, q)

PostRounds ==
    \E o \in {Silent, Rounds(ThreeTeams, All("ok"), All("ok"), All("ok"))} :
        Commit(ProcessEngineerInput(DB, "network", "ann", TextDns, InfoReply, o),
               "process_engineer_input", <<"network", TextDns, InfoReply, o>>)

AnalyzeRounds ==
    \E o \in RoundOracles : Commit(TriggerAnalysisHandler(DB, o), "analyze", <<o>>)

NextRounds == PostRounds \/ AnalyzeRounds

SpecRounds == InitRounds /\ [][NextRounds]_vars

\* the calls of one kind in a cycle's call log, in order
CallsOf(cy, what) == SelectSeq(cy.calls, LAMBDA call : call[1] = what)

\* the trigger reply says yes and names at least 2 teams
NamesEnough(reply) ==
    reply.kind = "json" /\ reply.needed /\ Len(reply.teams) >= 2

\* C27: a negotiation that starts has a participating-team list of 2 or 3
\* names, the first 3 names of the trigger reply in the reply's order; a
\* trigger reply that fails, says no or names fewer than 2 teams starts no
\* negotiation (no participating teams, no announcement, no position call)
C27_ParticipantsAreFirstThreeNames ==
    [][ IsSome(last'.cycle) =>
          LET cy == Get(last'.cycle)
              reply == OracleOf(last').trigger
          IN  /\ IsSome(cy.teams) =>
                    LET teams == Get(cy.teams) IN
                    /\ Len(teams) \in {2, 3}
                    /\ NamesEnough(reply)
                    /\ Len(teams) = Min(3, Len(reply.teams))
                    /\ \A i \in 1..Len(teams) : teams[i] = reply.teams[i]
              /\ StartedNegotiation(cy, NewMessages(messages, messages'))
                    => IsSome(cy.teams)
              /\ ~NamesEnough(reply) =>
                    /\ cy.teams = None
                    /\ ~StartedNegotiation(cy, NewMessages(messages, messages')) ]_vars

\* a trigger reply of 4 names started a negotiation of its first 3
C27_Witness ==
    /\ IsSome(last.cycle)
    /\ LastOracle.trigger = FourTeams
    /\ Get(last.cycle).teams = Some(<<"unix", "windows", "network">>)
    /\ Len(CallsOf(Get(last.cycle), "position")) >= 2

\* the teams that produced a position in the cycle
PositionTeams(cy) == {cy.positions[i].team : i \in 1..Len(cy.positions)}

\* the cycle ran the critiques round
RanCritiques(l) == Negotiated(l) /\ Len(Get(l.cycle).positions) >= 2

\* C28: in the critiques round exactly one critique call is made for each
\* team that produced a position, none for a participating team without a
\* position, and the positions handed to a team's critique call never
\* include one of that same team
C28_OneCritiquePerPositionedTeam ==
    RanCritiques(last) =>
        LET cy == Get(last.cycle)
            crit == CallsOf(cy, "critique")
        IN  /\ \A t \in PositionTeams(cy) :
                  Cardinality({i \in 1..Len(crit) : crit[i][2] = t}) = 1
            /\ \A t \in ListSet(Get(cy.teams)) \ PositionTeams(cy) :
                  \A i \in 1..Len(crit) : crit[i][2] # t
            /\ \A i \in 1..Len(crit) : crit[i][2] \notin ListSet(crit[i][3])

\* the teams, other than t, whose critique the critiques round kept
CriticsOf(cy, t) ==
    {cy.critiques[i].from_team : i \in 1..Len(cy.critiques)} \ {t}

\* the teams whose revision is handed to the consensus call
RevisedTeams(cy) ==
    UNION {ListSet(call[2]) : call \in ListSet(CallsOf(cy, "consensus"))}

\* C29: in the revisions round a team is asked to revise only when a critique
\* of a different team exists, the critiques it is given are those of the
\* other teams and never its own, and a team without such a critique is not
\* asked and is not in the revision set handed to the consensus call
C29_RevisionNeedsForeignCritique ==
    RanCritiques(last) =>
        LET cy == Get(last.cycle)
            rev == CallsOf(cy, "revision")
        IN  /\ \A i \in 1..Len(rev) :
                  /\ rev[i][2] \in PositionTeams(cy)
                  /\ rev[i][3] # <<>>
                  /\ rev[i][2] \notin ListSet(rev[i][3])
                  /\ ListSet(rev[i][3]) = CriticsOf(cy, rev[i][2])
            /\ \A t \in PositionTeams(cy) :
                  CriticsOf(cy, t) = {} =>
                      /\ \A i \in 1..Len(rev) : rev[i][2] # t
                      /\ t \notin RevisedTeams(cy)
            /\ RevisedTeams(cy) \subseteq {rev[i][2] : i \in 1..Len(rev)}

\* unix alone gave a critique: unix is not asked to revise, windows and
\* network are, and the consensus call gets their two revisions
C29_Witness ==
    /\ RanCritiques(last)
    /\ PositionTeams(Get(last.cycle)) = {"unix", "windows", "network"}
    /\ CriticsOf(Get(last.cycle), "unix") = {}
    /\ CriticsOf(Get(last.cycle), "windows") = {"unix"}
    /\ Len(CallsOf(Get(last.cycle), "revision")) = 2
    /\ RevisedTeams(Get(last.cycle)) = {"windows", "network"}

\* every call of a round failed
AllFailed(replies) == \A i \in 1..Len(replies) : replies[i] = "fail"

----------------------------------------------------------------------------
(* The order of a cycle's steps *)

\* the round a negotiation message, a dialogue entry or an oracle call is of
RoundOf(kind) ==
    CASE kind = "collab_start" -> 0
      [] kind = "position" -> 1
      [] kind = "critique" -> 2
      [] kind \in {"response", "revision"} -> 3
      [] kind = "consensus" -> 4
      [] OTHER -> 5

\* s is in the order of its rounds
InRoundOrder(s, kind(_)) ==
    \A i, j \in 1..Len(s) : i < j => RoundOf(kind(s[i])) <= RoundOf(kind(s[j]))

\* a is b with some elements left out
RECURSIVE IsSubSeq(_, _)
IsSubSeq(a, b) ==
    IF a = <<>> THEN TRUE
    ELSE IF b = <<>> THEN FALSE
    ELSE IF Head(a) = Head(b) THEN IsSubSeq(Tail(a), Tail(b))
    ELSE IsSubSeq(a, Tail(b))

\* the teams named by the records of s, in order
TeamsOf(s, team(_)) == [i \in 1..Len(s) |-> team(s[i])]

\* the messages of the negotiation among the new messages
NegotiationMessages(new) == SelectSeq(new, LAMBDA m : RoundOf(m.kind) < 5)

\* the threads of the messages of one kind, in order
ThreadsOf(msgs, kind) ==
    TeamsOf(SelectSeq(msgs, LAMBDA m : m.kind = kind), LAMBDA m : m.thread)

\* C31: a negotiation runs start announcement, positions, critiques,
\* revisions, consensus in this order, no round after a later one; in each
\* round the teams are handled in the order of the participating list; each
\* team result that was kept posts one message to that team's own thread and
\* one dialogue entry; the start is posted once and the consensus at most once,
\* both to the summary thread
C31_RoundsInOrder ==
    [][ (Negotiated(last') /\ ~last'.raised) =>
          LET cy == Get(last'.cycle)
              msgs == NegotiationMessages(NewMessages(messages, messages'))
              calls == SelectSeq(cy.calls, LAMBDA call : RoundOf(call[1]) < 5)
              pos == TeamsOf(cy.positions, LAMBDA x : x.team)
              cri == TeamsOf(cy.critiques, LAMBDA x : x.from_team)
              rev == TeamsOf(cy.revisions, LAMBDA x : x.team)
          IN  /\ InRoundOrder(msgs, LAMBDA m : m.kind)
              /\ InRoundOrder(calls, LAMBDA call : call[1])
              /\ InRoundOrder(cy.dialogue, LAMBDA d : d.message_type)
              /\ msgs # <<>> /\ msgs[1].kind = "collab_start"
              /\ ThreadsOf(msgs, "collab_start") = <<"summary">>
              /\ ThreadsOf(msgs, "consensus") \in {<<>>, <<"summary">>}
              /\ IsSubSeq(TeamsOf(CallsOf(cy, "position"), LAMBDA call : call[2]),
                          Get(cy.teams))
              /\ IsSubSeq(pos, Get(cy.teams))
              /\ TeamsOf(CallsOf(cy, "critique"), LAMBDA call : call[2])
                    = IF Len(pos) >= 2 THEN pos ELSE <<>>
              /\ IsSubSeq(cri, pos)
              /\ IsSubSeq(TeamsOf(CallsOf(cy, "revision"), LAMBDA call : call[2]), pos)
              /\ IsSubSeq(rev, pos)
              /\ ThreadsOf(msgs, "position") = pos
              /\ ThreadsOf(msgs, "critique") = cri
              /\ ThreadsOf(msgs, "response") = rev
              /\ cy.dialogue =
                    [i \in 1..Len(pos) |-> Dialogue(pos[i], "position")]
                    \o [i \in 1..Len(cri) |-> Dialogue(cri[i], "critique")]
                    \o [i \in 1..Len(rev) |-> Dialogue(rev[i], "response")] ]_vars

\* three teams went through all rounds, one revision call failing
C31_Witness ==
    /\ Negotiated(last) /\ ~last.raised
    /\ Get(Get(last.cycle).teams) = <<"unix", "windows", "network">>
    /\ Len(Get(last.cycle).positions) = 3
    /\ TeamsOf(Get(last.cycle).critiques, LAMBDA x : x.from_team) = <<"windows", "network">>
    /\ TeamsOf(Get(last.cycle).revisions, LAMBDA x : x.team) = <<"unix", "network">>
    /\ IsSome(Get(last.cycle).consensus)
    /\ \E i \in 1..Len(messages) : messages[i].kind = "consensus"

\* the step of a full analysis that appends an event of this type or posts a
\* message of this kind; 0: none of them
StepOf(kind) ==
    CASE kind \in {"hypothesis_formed", "hypothesis_updated"} -> 1
      [] kind \in {"action_assigned", "new_action"} -> 2
      [] kind \in {"team_coordination", "coordination"} -> 3
      [] kind = "escalation" -> 4
      [] kind \in {"strategic_analysis", "strategic_update"} -> 5
      [] OTHER -> 0

\* s is in the order of the steps
InStepOrder(s, kind(_)) ==
    \A i, j \in 1..Len(s) : i < j => StepOf(kind(s[i])) <= StepOf(kind(s[j]))

\* C32: a completed full-analysis cycle applies hypothesis, actions,
\* coordination requests and escalation in this order, then appends exactly
\* one strategic_analysis event and posts exactly one summary message, on
\* the summary thread, whose hypothesis snapshot is the hypothesis the cycle
\* leaves
C32_AppliedInOrderThenBroadcast ==
    [][ RanFull(last') =>
          LET ev == NewEvents(incident, incident')
              new == NewMessages(messages, messages')
              analyses == {i \in 1..Len(ev) : ev[i].event_type = "strategic_analysis"}
              updates == {i \in 1..Len(new) : new[i].kind = "strategic_update"}
          IN  /\ InStepOrder(ev, LAMBDA e : e.event_type)
              /\ InStepOrder(new, LAMBDA m : m.kind)
              /\ analyses = {Len(ev)} /\ ev # <<>>
              /\ updates = {Len(new)} /\ new # <<>>
              /\ new[Len(new)].thread = "summary"
              /\ new[Len(new)].info[3] = HypothesisSnapshot(incident')
              /\ AcceptedCandidate(last') =>
                    /\ IsSome(incident'.hypothesis)
                    /\ Get(incident'.hypothesis).root_cause
                          = Get(Get(CandidateOf(last')).root_cause) ]_vars

\* a cycle that updated the hypothesis, assigned an action, coordinated two
\* teams and escalated to the vendor
C32_Witness ==
    /\ RanFull(last)
    /\ LastOracle = Directive(Escalation(Some("vendor")))
    /\ \E i, j, k, l \in 1..Len(incident.timeline) :
          /\ i < j /\ j < k /\ k < l /\ l < Len(incident.timeline)
          /\ incident.timeline[i].event_type = "hypothesis_formed"
          /\ incident.timeline[j].event_type = "action_assigned"
          /\ incident.timeline[k].event_type = "team_coordination"
          /\ incident.timeline[l].event_type = "escalation"
    /\ incident.timeline[Len(incident.timeline)].event_type = "strategic_analysis"
    /\ messages[Len(messages)].kind = "strategic_update"
    /\ messages[Len(messages)].info[3] = Some(1)

\* the ids of the actions a step added that are assigned to the team t
AddedFor(old, new, t) ==
    SelectSeq([k \in 1..(Len(new) - Len(old)) |-> Len(old) + k],
              LAMBDA id : new[id].assigned_to = t)

\* C33: after a completed cycle every action it added (one per accepted
\* proposal, C21) is pending, its id is in the active_tasks of the team it is
\* assigned to, that team is no longer on standby, and each team's
\* active_tasks, status, action_assigned events and new_action messages
\* changed by exactly the actions added for it; a rejected proposal adds
\* nothing of these
C33_AcceptedProposalEffects ==
    [][ RanFull(last') =>
          LET batch == Get(Get(last'.cycle).analysis).new_actions
              old == incident.actions
              new == incident'.actions
              ev == SelectSeq(NewEvents(incident, incident'),
                              LAMBDA e : e.event_type = "action_assigned")
              msg == SelectSeq(NewMessages(messages, messages'),
                               LAMBDA m : m.kind = "new_action")
              fresh == FreshProposals(batch, old)
              taken == {i \in fresh : FreshRank(batch, old, i) <= FreeSlots(old)}
          IN  /\ Len(new) = Len(old) + Cardinality(taken)
              /\ Len(ev) = Cardinality(taken)
              /\ Len(msg) = Cardinality(taken)
              /\ \A k \in 1..Len(ev) :
                    /\ new[Len(old) + k].status = "pending"
                    /\ ev[k].team = Some(new[Len(old) + k].assigned_to)
                    /\ msg[k].thread = new[Len(old) + k].assigned_to
                    /\ msg[k].info = <<Len(old) + k>>
              /\ \A k \in (Len(old) + 1)..Len(new) :
                    /\ new[k].assigned_to \in DOMAIN incident'.team_states
                    /\ InList(k, incident'.team_states[new[k].assigned_to].active_tasks)
                    /\ incident'.team_states[new[k].assigned_to].status # "standby"
              /\ DOMAIN incident'.team_states = DOMAIN incident.team_states
              /\ \A t \in DOMAIN incident.team_states :
                    /\ incident'.team_states[t].active_tasks =
                          incident.team_states[t].active_tasks \o AddedFor(old, new, t)
                    /\ incident'.team_states[t].status =
                          IF /\ AddedFor(old, new, t) # <<>>
                             /\ incident.team_states[t].status = "standby"
                          THEN "investigating"
                          ELSE incident.team_states[t].status ]_vars

----------------------------------------------------------------------------
(* SpecRace: an engineer update while an analysis cycle waits for the       *)
(* oracle.  analyze_and_direct loads the incident and the findings, waits   *)
(* at its oracle calls and stores the incident it loaded, with its changes, *)
(* at its end; the requests of main.py run on one event loop without a      *)
(* lock, so another request is handled while the cycle waits.               *)

RaceOracles ==
    { Silent,
      Hypothesize(Candidate(Some(TextPool), Some(7)), <<>>),
      Directive(NoEscalation) }

InitRace ==
    /\ client = TRUE
    /\ \E o \in {Silent, Directive(NoEscalation)} : Created(o)

\* trigger_analysis up to the first oracle call of its cycle
BeginCycle ==
    /\ ops < MaxOps
    /\ suspended = None
    /\ \E o \in RaceOracles :
          /\ suspended' = Some([row |-> incident, findings |-> findings, o |-> o])
          /\ last' = [op |-> "begin_cycle", args |-> <<o>>, raised |-> FALSE,
                      cycle |-> None]
    /\ ops' = ops + 1
    /\ UNCHANGED <<client, incident, findings, messages, quiet>>

\* the rest of that cycle: it works on the incident it loaded; its messages
\* are added to the stored ones; update_incident overwrites the stored row
ResumeCycle ==
    /\ ops < MaxOps
    /\ IsSome(suspended)
    /\ \E s \in {Get(suspended)} :
       \E c \in {AnalyzeAndDirect(s.row, messages, s.findings, s.o)} :
          /\ incident' = IF c.row = s.row THEN incident ELSE c.row
          /\ messages' = c.messages
          /\ last' = [op |-> "analyze", args |-> <<s.o>>,
                      raised |-> c.raised \/ c.path = "none",
                      cycle |-> Some(CycleSummary(c))]
    /\ suspended' = None
    /\ ops' = ops + 1
    /\ UNCHANGED <<client, findings, quiet>>

\* add_message, handled whole, also while a cycle waits
PostRace ==
    \E thread \in {"unix", "windows"},
       reply \in {InfoReply, Classified("blocker", 9, FALSE)} :
        Commit(ProcessEngineerInput(DB, thread, "ann", TextDns, reply, Silent),
               "process_engineer_input", <<thread, TextDns, reply, Silent>>)

NextRace == BeginCycle \/ ResumeCycle \/ PostRace

SpecRace == InitRace /\ [][NextRace]_vars

\* C34: whatever the interleaving of an engineer update and a waiting
\* analysis cycle, no step makes a team's findings_count decrease or removes
\* an event from the stored timeline, and the end of the cycle leaves a team
\* the update blocked blocked, with its reason
C34_UpdateSurvivesRunningCycle ==
    [][ /\ \A t \in DOMAIN incident.team_states :
              /\ t \in DOMAIN incident'.team_states
              /\ incident'.team_states[t].findings_count
                    >= incident.team_states[t].findings_count
              /\ (IsSome(suspended) /\ suspended' = None
                    /\ incident.team_states[t].status = "blocked")
                    => /\ incident'.team_states[t].status = "blocked"
                       /\ incident'.team_states[t].blocked_reason
                             = incident.team_states[t].blocked_reason
        /\ Len(incident'.timeline) >= Len(incident.timeline)
        /\ SubSeq(incident'.timeline, 1, Len(incident.timeline)) = incident.timeline
      ]_vars

\* C35: the stored incident's thread list and its team states agree: every
\* thread other than summary has a TeamState and every TeamState's team is in
\* the thread list, also after an escalation to the vendor by the commander or
\* by escalate_incident
C35_ThreadsMatchTeamStates ==
    ListSet(incident.threads) \ {"summary"} = DOMAIN incident.team_states

\* the version of the stored hypothesis, 0 without one
VersionOf(inc) == IF IsSome(inc.hypothesis) THEN Get(inc.hypothesis).version ELSE 0

\* C36: every analysis cycle ends having either written a negotiated
\* consensus to the hypothesis, and then run no full analysis and applied no
\* action, coordination or escalation, or completed the full analysis; a
\* negotiation without a usable consensus goes on to the full analysis in the
\* same cycle; the version of the hypothesis rises by at most 1 in a cycle
C36_ConsensusOrFullAnalysis ==
    [][ IsSome(last'.cycle) =>
          LET cy == Get(last'.cycle)
              ev == NewEvents(incident, incident')
              new == NewMessages(messages, messages')
          IN  /\ cy.path \in {"consensus", "full"}
              /\ cy.path = "consensus" =>
                    /\ IsSome(cy.consensus)
                    /\ ~Asked(cy, "analysis") /\ cy.analysis = None
                    /\ \A i \in 1..Len(ev) : StepOf(ev[i].event_type) = 0
                    /\ \A i \in 1..Len(new) : StepOf(new[i].kind) = 0
                    /\ incident'.actions = incident.actions
                    /\ incident'.escalated_to_vendor = incident.escalated_to_vendor
                    /\ VersionOf(incident') = VersionOf(incident) + 1
                    /\ Get(incident'.hypothesis).proposed_by = "Team Consensus"
              /\ cy.path = "full" =>
                    /\ IsSome(cy.analysis)
                    /\ incident'.collaboration_consensus = incident.collaboration_consensus
                    /\ Cardinality({i \in 1..Len(ev) :
                                      ev[i].event_type = "strategic_analysis"}) = 1
              /\ (Negotiated(last') /\ ~ReturnedConsensus(last')) => cy.path = "full"
              /\ VersionOf(incident') <= VersionOf(incident) + 1 ]_vars

\* C37: a team's active_tasks holds only ids of actions that are assigned to
\* that team and are not completed
C37_ActiveTasksAreOpenActions ==
    \A t \in DOMAIN incident.team_states :
        \A k \in 1..Len(incident.team_states[t].active_tasks) :
            LET id == incident.team_states[t].active_tasks[k] IN
            \E i \in 1..Len(incident.actions) :
                /\ incident.actions[i].id = id
                /\ incident.actions[i].assigned_to = t
                /\ incident.actions[i].status # "completed"

\* C38: a cycle that selects participating teams leaves them as the recorded
\* team set, and a recorded consensus is one of the recorded team set
C38_ConsensusBelongsToRecordedTeams ==
    [][ Negotiated(last') =>
          /\ incident'.collaboration_active
          /\ ListSet(incident'.collaboration_teams)
                = ListSet(Get(Get(last'.cycle).teams))
          /\ IsSome(incident'.collaboration_consensus) =>
                ListSet(Get(incident'.collaboration_consensus).participating_teams)
                   = ListSet(incident'.collaboration_teams) ]_vars

\* C39: the participating teams a negotiation is conducted with are pairwise
\* different and each of them qualified for the trigger check (a thread other
\* than summary with at least 3 findings)
C39_ParticipantsDistinctAndQualified ==
    Negotiated(last) =>
        LET teams == Get(Get(last.cycle).teams) IN
        /\ \A i, j \in 1..Len(teams) : i # j => teams[i] # teams[j]
        /\ ListSet(teams) \subseteq QualifyingTeams(findings)

\* the consensus announcements among the new messages of a step
Announcements(new) ==
    SelectSeq(new, LAMBDA m : m.kind = "consensus" /\ m.thread = "summary")

\* C40: when a cycle announces a consensus on the summary thread, the
\* announced consensus has a hypothesis text, and if the cycle also leaves a
\* consensus_reached event the stored hypothesis after the cycle is the
\* announced one, proposed by the team consensus
C40_AnnouncedConsensusIsTheHypothesis ==
    [][ (IsSome(last'.cycle) /\ Announcements(NewMessages(messages, messages')) # <<>>) =>
          LET said == Announcements(NewMessages(messages, messages'))[1].info
              ev == NewEvents(incident, incident')
          IN  /\ said # <<>>
              /\ (\E i \in 1..Len(ev) : ev[i].event_type = "consensus_reached") =>
                    /\ IsSome(incident'.hypothesis)
                    /\ Get(incident'.hypothesis).root_cause = said
                    /\ Get(incident'.hypothesis).proposed_by = "Team Consensus" ]_vars

====
